---- MODULE Spec2Model ----
(***************************************************************************)
(* A model of the two binary decoders of game_exporter (src/main.py):      *)
(*   - class Decrypter, the fake-header XOR cipher of RPG Maker assets;    *)
(*   - extract_godot_pck_builtin, the reader of Godot PCK containers;      *)
(*   - Decrypter.process_directory and discover_rpgmakermz, the batch      *)
(*     callers of the cipher.                                              *)
(* Byte buffers are sequences of numbers 0..255 (1-based here, 0-based in  *)
(* the source), hexadecimal strings are sequences of hex digits 0..15.     *)
(***************************************************************************)
EXTENDS Integers, Sequences, FiniteSets, TLC

VARIABLES
    \* ---- Decrypter (src/main.py:690-848) ----
    encrypt_code,           \* self.encrypt_code: the key, a hex string
    encryption_code_array,  \* self.encryption_code_array
    header_len,             \* self.header_len
    ignore_fake_header,     \* self.ignore_fake_header
    buf,                    \* the caller's buffer object: [kind, data]
    orig,                   \* the content buf held when the run started
    enc,                    \* outcome of encrypt(buf): [err, out]
    tamperedAt,             \* 0, or the 1-based position changed in enc.out
    decIn,                  \* the buffer handed to decrypt
    dec,                    \* outcome of decrypt(decIn): [err, out]
    cpc,                    \* position of the cipher caller
    restored,               \* outcome of restore_png_header(buf): [err, out]
    \* ---- extract_godot_pck_builtin (src/main.py:953-1039) ----
    pck_file,               \* the bytes of the file at pck_path
    gen,                    \* how pck_file was laid out: [ms, layout, host, cut, extra]
    ppc,                    \* position inside extract_godot_pck_builtin
    pck_start,              \* pck_start
    fpos,                   \* the position of the file object f
    file_count,             \* file_count
    files_info,             \* files_info
    next_member,            \* index (0-based) of the member loop in files_info
    extracted_count,        \* extracted_count
    fs_files,               \* the files on disk: resolved path -> content
    fs_dirs,                \* the directories on disk: set of resolved paths
    ret,                    \* what extract_godot_pck_builtin returned
    pck_error,              \* the exception or refusal that ended the extraction
    recovered,              \* recovered, of process_godot_imports
    PIL_AVAILABLE,          \* PIL_AVAILABLE
    debug_mode,             \* debug_mode
    pck_out,                \* the lines extract_godot_pck_builtin has printed about
                            \* the members and the outcome (lines 973, 1029, 1031, 1038)
    \* ---- process_directory, discover_rpgmakermz (src/main.py:807-889) ----
    driver,                 \* which of the two functions runs the batch
    operation,              \* operation: "decrypt" or "encrypt"
    disk,                   \* the files of the directory: name -> content
    disk0,                  \* what disk held when the batch started
    faults,                 \* the I/O fault each file meets: name -> fault
    walk,                   \* the files os.walk has still to yield
    processed_count,        \* processed_count (processed in discover_rpgmakermz)
    printed,                \* the lines printed so far
    bpc                     \* position of the batch

cvars == <<encrypt_code, encryption_code_array, header_len, ignore_fake_header,
           buf, orig, enc, tamperedAt, decIn, dec, cpc, restored>>

pvars == <<pck_file, gen, ppc, pck_start, fpos, file_count, files_info,
           next_member, extracted_count, fs_files, fs_dirs, ret, pck_error,
           recovered, PIL_AVAILABLE, debug_mode, pck_out>>

bvars == <<driver, operation, disk, disk0, faults, walk, processed_count,
           printed, bpc>>

vars == <<cvars, pvars, bvars>>

-----------------------------------------------------------------------------
(* Bounds of the model *)

\* longest caller buffer drawn freely over ByteVals
MaxBufLen == 3

-----------------------------------------------------------------------------
(* Generic helpers *)

Min(a, b) == IF a < b THEN a ELSE b

Max(a, b) == IF a > b THEN a ELSE b

\* s[a:b] of Python, a and b 0-based, 0 <= a, 0 <= b
Slice(s, a, b) ==
    LET hi == Min(b, Len(s))
    IN  IF a >= hi THEN << >> ELSE [i \in 1..(hi - a) |-> s[a + i]]

\* s[a:] of Python
SliceFrom(s, a) == Slice(s, a, Len(s))

RECURSIVE SeqsUpTo(_, _)
SeqsUpTo(S, n) ==
    IF n = 0 THEN { << >> }
    ELSE LET shorter == SeqsUpTo(S, n - 1)
         IN  shorter \cup { Append(s, x) : s \in { t \in shorter : Len(t) = n - 1 }, x \in S }

\* a ^ b of Python on two bytes
RECURSIVE XorBits(_, _, _)
XorBits(a, b, n) ==
    IF n = 0 THEN 0
    ELSE (((a % 2) + (b % 2)) % 2) + (2 * XorBits(a \div 2, b \div 2, n - 1))

BitXor(a, b) == XorBits(a, b, 8)

\* int(s, 16) of a non-empty string of hex digits; "ValueError" on the empty string
RECURSIVE HexInt(_)
HexInt(s) ==
    IF Len(s) = 0 THEN 0
    ELSE (16 * HexInt(SubSeq(s, 1, Len(s) - 1))) + s[Len(s)]

-----------------------------------------------------------------------------
(* Decrypter *)

default_header_len == 16

\* "5250474d56000000"
default_signature == <<5,2, 5,0, 4,7, 4,13, 5,6, 0,0, 0,0, 0,0>>

\* "000301"
default_version == <<0,0, 0,3, 0,1>>

\* "0000000000"
default_remain == <<0,0, 0,0, 0,0, 0,0, 0,0>>

\* [self.encrypt_code[i:i+2] for i in range(0, len(self.encrypt_code), 2)]
RECURSIVE Chunks2(_)
Chunks2(s) ==
    IF Len(s) = 0 THEN << >>
    ELSE <<Slice(s, 0, 2)>> \o Chunks2(SliceFrom(s, 2))

split_encryption_code(code) ==
    IF Len(code) = 0 THEN << >> ELSE Chunks2(code)

\* get_header_len: None falls back to the default
NoneVal == -1

get_header_len(hl) == IF hl = NoneVal THEN default_header_len ELSE hl

\* self.header_len once encrypt, decrypt or restore_png_header has been called
\* on data: get_header_len stores the default in place of None (line 789), and
\* each of the three calls it unless it raises on an empty buffer first
header_len_after(data, hl) == IF Len(data) = 0 THEN hl ELSE get_header_len(hl)

\* bytes.fromhex('89 50 4E 47 0D 0A 1A 0A 00 00 00 0D 49 48 44 52')[:length]
get_normal_png_header(length) ==
    Slice(<<137, 80, 78, 71, 13, 10, 26, 10, 0, 0, 0, 13, 73, 72, 68, 82>>, 0, length)

\* build_fake_header: [err, out]; int('', 16) raises ValueError once the
\* template is exhausted
RECURSIVE BuildLoop(_, _, _, _)
BuildLoop(structure, i, n, acc) ==
    IF i >= n THEN [err |-> "none", out |-> acc]
    ELSE LET chunk == Slice(structure, i * 2, i * 2 + 2)
         IN  IF Len(chunk) = 0 THEN [err |-> "ValueError", out |-> << >>]
             ELSE BuildLoop(structure, i + 1, n, Append(acc, HexInt(chunk)))

build_fake_header(hl) ==
    BuildLoop(default_signature \o default_version \o default_remain,
              0, get_header_len(hl), << >>)

\* verify_fake_header: "true", "false", or the exception raised.
\* file_header[i] raises IndexError when the header is shorter than header_len
\* and no mismatch was met before its end.
RECURSIVE VerifyLoop(_, _, _, _)
VerifyLoop(file_header, fake, i, n) ==
    IF i >= n THEN "true"
    ELSE IF i >= Len(file_header) THEN "IndexError"
    ELSE IF file_header[i + 1] # fake[i + 1] THEN "false"
    ELSE VerifyLoop(file_header, fake, i + 1, n)

\* the comparison loop stopping one position early
verify_fake_header_skip_last(hl, file_header) ==
    LET fake == build_fake_header(hl)
    IN  IF fake.err # "none" THEN fake.err
        ELSE VerifyLoop(file_header, fake.out, 0, get_header_len(hl) - 1)

\* the comparison running over the bytes the file header has, a short header
\* passing when it is a prefix of the fake header
verify_fake_header_zip(hl, file_header) ==
    LET fake == build_fake_header(hl)
    IN  IF fake.err # "none" THEN fake.err
        ELSE VerifyLoop(file_header, fake.out, 0, Min(get_header_len(hl), Len(file_header)))

verify_fake_header(hl, file_header) ==
    LET fake == build_fake_header(hl)
    IN  IF fake.err # "none" THEN fake.err
        ELSE VerifyLoop(file_header, fake.out, 0, get_header_len(hl))

\* x_or_bytes: [err, data]. The loop assigns array_buffer[i] in place, which a
\* bytes object (immutable) refuses with TypeError at the first assignment.
RECURSIVE XorLoop(_, _, _, _, _)
XorLoop(kind, data, i, n, keyArr) ==
    IF i >= n THEN [err |-> "none", data |-> data]
    ELSE IF i < Len(keyArr)
         THEN IF kind = "bytes"
              THEN [err |-> "TypeError", data |-> data]
              ELSE XorLoop(kind,
                           [data EXCEPT ![i + 1] = BitXor(data[i + 1], HexInt(keyArr[i + 1]))],
                           i + 1, n, keyArr)
         ELSE XorLoop(kind, data, i + 1, n, keyArr)

\* the loop running over the whole buffer instead of its header-length prefix
x_or_bytes_whole_buffer(kind, data, hl, keyArr) ==
    XorLoop(kind, data, 0, Len(data), keyArr)

x_or_bytes(kind, data, hl, keyArr) ==
    XorLoop(kind, data, 0, Min(get_header_len(hl), Len(data)), keyArr)

\* encrypt: [err, out, arg], arg being what the caller's buffer holds afterwards
encrypt(kind, data, hl, keyArr) ==
    IF Len(data) = 0 THEN [err |-> "EmptyInput", out |-> << >>, arg |-> data]
    ELSE LET x    == x_or_bytes(kind, data, hl, keyArr)
             fake == build_fake_header(hl)
             tmp  == fake.out \o x.data
             chk  == verify_fake_header(hl, Slice(tmp, 0, get_header_len(hl)))
         IN  IF x.err # "none" THEN [err |-> x.err, out |-> << >>, arg |-> x.data]
             ELSE IF fake.err # "none" THEN [err |-> fake.err, out |-> << >>, arg |-> x.data]
             ELSE IF chk = "false" THEN [err |-> "HeaderBuildMismatch", out |-> << >>, arg |-> x.data]
             ELSE IF chk # "true" THEN [err |-> chk, out |-> << >>, arg |-> x.data]
             ELSE [err |-> "none", out |-> tmp, arg |-> x.data]

\* the check of the empty buffer left out of decrypt
decrypt_no_empty_check(data, hl, keyArr, ignore) ==
    LET chk == IF ignore THEN "true"
               ELSE verify_fake_header(hl, Slice(data, 0, get_header_len(hl)))
        x   == x_or_bytes("bytearray", SliceFrom(data, get_header_len(hl)), hl, keyArr)
    IN  IF chk = "false" THEN [err |-> "HeaderMismatch", out |-> << >>]
        ELSE IF chk # "true" THEN [err |-> chk, out |-> << >>]
        ELSE [err |-> "none", out |-> x.data]

\* decrypt: [err, out]; the remainder is copied into a fresh bytearray before
\* the XOR, so the argument is left alone whatever its kind
decrypt(data, hl, keyArr, ignore) ==
    IF Len(data) = 0 THEN [err |-> "EmptyInput", out |-> << >>]
    ELSE LET chk == IF ignore THEN "true"
                    ELSE verify_fake_header(hl, Slice(data, 0, get_header_len(hl)))
             x   == x_or_bytes("bytearray", SliceFrom(data, get_header_len(hl)), hl, keyArr)
         IN  IF chk = "false" THEN [err |-> "HeaderMismatch", out |-> << >>]
             ELSE IF chk # "true" THEN [err |-> chk, out |-> << >>]
             ELSE [err |-> "none", out |-> x.data]

\* restore_png_header: [err, out]. png_header_len is None in every Decrypter
\* the program builds, so the length is get_header_len(), cut to the 16 bytes
\* the canonical header has; twice that many bytes of the buffer are dropped.
restore_png_header(data, hl) ==
    IF Len(data) = 0 THEN [err |-> "EmptyInput", out |-> << >>]
    ELSE LET png_start_header == get_normal_png_header(get_header_len(hl))
             n                == Len(png_start_header)
         IN  [err |-> "none", out |-> png_start_header \o SliceFrom(data, n * 2)]

-----------------------------------------------------------------------------
(* The cipher's callers: inputs and steps *)

\* byte values the free buffers are drawn over: 0x00, 'R' (first header byte), 0xFF
ByteVals == {0, 82, 255}

\* b"\x00\x01\x02\x03\x04"
ScenarioBuf == <<0, 1, 2, 3, 4>>

\* "", "12", "123", "1234ABCD"
Keys == { << >>, <<1,2>>, <<1,2,3>>, <<1,2,3,4,10,11,12,13>> }

\* header_len left at None (16), and set to 2, 4
HeaderLens == {NoneVal, 2, 4}

FreeBufs == SeqsUpTo(ByteVals, MaxBufLen) \cup {ScenarioBuf}

\* the buffers a caller reads from disk: free ones, and ones that carry the header
InputBufs(hl) == FreeBufs \cup { build_fake_header(hl).out \o b : b \in FreeBufs }

NoResult == [err |-> "unset", out |-> << >>]

\* no batch is running
BatchIdle ==
    /\ driver = "none"
    /\ operation = "none"
    /\ disk = << >>
    /\ disk0 = << >>
    /\ faults = << >>
    /\ walk = << >>
    /\ processed_count = 0
    /\ printed = << >>
    /\ bpc = "idle"

\* no archive is being extracted
PckIdle ==
    /\ pck_file = << >>
    /\ gen = [ms |-> << >>, layout |-> "none", host |-> << >>, cut |-> 0, extra |-> 0]
    /\ ppc = "idle"
    /\ pck_start = 0
    /\ fpos = 0
    /\ file_count = 0
    /\ files_info = << >>
    /\ next_member = 0
    /\ extracted_count = 0
    /\ fs_files = << >>
    /\ fs_dirs = {}
    /\ ret = "none"
    /\ pck_error = "none"
    /\ recovered = 0
    /\ PIL_AVAILABLE = FALSE
    /\ debug_mode = FALSE
    /\ pck_out = << >>

CipherInit ==
    /\ encrypt_code \in Keys
    /\ encryption_code_array = split_encryption_code(encrypt_code)
    /\ header_len \in HeaderLens
    /\ ignore_fake_header \in BOOLEAN
    /\ \E k \in {"bytes", "bytearray"} : \E d \in InputBufs(header_len) :
          /\ buf = [kind |-> k, data |-> d]
          /\ orig = d
    /\ enc = NoResult
    /\ tamperedAt = 0
    /\ decIn = << >>
    /\ dec = NoResult
    /\ cpc = "start"
    /\ restored = NoResult
    /\ PckIdle
    /\ BatchIdle

\* new_content = self.encrypt(content)
DoEncrypt ==
    /\ cpc = "start"
    /\ LET r == encrypt(buf.kind, buf.data, header_len, encryption_code_array)
       IN  /\ enc' = [err |-> r.err, out |-> r.out]
           /\ buf' = [buf EXCEPT !.data = r.arg]
    /\ header_len' = header_len_after(buf.data, header_len)
    /\ cpc' = "encrypted"
    /\ UNCHANGED pvars
    /\ UNCHANGED bvars
    /\ UNCHANGED <<encrypt_code, encryption_code_array, ignore_fake_header,
                   orig, tamperedAt, decIn, dec, restored>>

\* one byte of the encrypted file is changed on disk
DoTamper ==
    /\ cpc = "encrypted"
    /\ enc.err = "none"
    /\ \E p \in 1..Len(enc.out) : \E v \in {BitXor(enc.out[p], 1), BitXor(enc.out[p], 255)} :
          /\ enc' = [enc EXCEPT !.out[p] = v]
          /\ tamperedAt' = p
    /\ cpc' = "tampered"
    /\ UNCHANGED pvars
    /\ UNCHANGED bvars
    /\ UNCHANGED <<encrypt_code, encryption_code_array, header_len, ignore_fake_header,
                   buf, orig, decIn, dec, restored>>

\* new_content = self.decrypt(content), content being the encrypted file
DoDecryptEncrypted ==
    /\ cpc \in {"encrypted", "tampered"}
    /\ enc.err = "none"
    /\ decIn' = enc.out
    /\ dec' = decrypt(enc.out, header_len, encryption_code_array, ignore_fake_header)
    /\ header_len' = header_len_after(enc.out, header_len)
    /\ cpc' = "decrypted"
    /\ UNCHANGED pvars
    /\ UNCHANGED bvars
    /\ UNCHANGED <<encrypt_code, encryption_code_array, ignore_fake_header,
                   buf, orig, enc, tamperedAt, restored>>

\* new_content = self.decrypt(content), content being a file as found
DoDecryptRaw ==
    /\ cpc = "start"
    /\ decIn' = buf.data
    /\ dec' = decrypt(buf.data, header_len, encryption_code_array, ignore_fake_header)
    /\ header_len' = header_len_after(buf.data, header_len)
    /\ cpc' = "decrypted"
    /\ UNCHANGED pvars
    /\ UNCHANGED bvars
    /\ UNCHANGED <<encrypt_code, encryption_code_array, ignore_fake_header,
                   buf, orig, enc, tamperedAt, restored>>

\* restored = self.restore_png_header(content), content being a file as found
DoRestore ==
    /\ cpc = "start"
    /\ restored' = restore_png_header(buf.data, header_len)
    /\ header_len' = header_len_after(buf.data, header_len)
    /\ cpc' = "restored"
    /\ UNCHANGED pvars
    /\ UNCHANGED bvars
    /\ UNCHANGED <<encrypt_code, encryption_code_array, ignore_fake_header,
                   buf, orig, enc, tamperedAt, decIn, dec>>

CipherNext == DoEncrypt \/ DoTamper \/ DoDecryptEncrypted \/ DoDecryptRaw \/ DoRestore

SpecCipher == CipherInit /\ [][CipherNext]_vars

-----------------------------------------------------------------------------
(* Properties of the cipher *)

\* the 16 bytes of the default fake header, 52 50 47 4D 56 00 00 00 00 03 01 00 ...
FakeHeaderBytes == <<82, 80, 71, 77, 86, 0, 0, 0, 0, 3, 1, 0, 0, 0, 0, 0>>

HL == get_header_len(header_len)

\* number of key bytes, and key byte i (1-based), read off the hex key itself
NKey == (Len(encrypt_code) + 1) \div 2

KeyByte(i) ==
    IF 2 * i <= Len(encrypt_code)
    THEN (16 * encrypt_code[(2 * i) - 1]) + encrypt_code[2 * i]
    ELSE encrypt_code[(2 * i) - 1]

\* XOR of the header-length prefix of b with the key, position by position,
\* over the positions i < min(header_len, number of key bytes, len(b))
XorPrefix(b) ==
    [i \in 1..Len(b) |-> IF i <= HL /\ i <= NKey THEN BitXor(b[i], KeyByte(i)) ELSE b[i]]

Encrypted == cpc \in {"encrypted", "tampered", "decrypted"} /\ enc.err # "unset"

\* the decrypt call was given the untouched result of encrypt
RoundTripped == cpc = "decrypted" /\ enc.err = "none" /\ tamperedAt = 0

\* C1: for every key and every non-empty buffer B, encrypt(B) returns and
\* decrypt(encrypt(B)) returns the content B held before encrypt was called.
C1_RoundTrip ==
    /\ (Encrypted /\ Len(orig) > 0) => enc.err = "none"
    /\ RoundTripped => (dec.err = "none" /\ dec.out = orig)

\* C1, on the buffers encrypt accepts: whenever encrypt returned, decrypting
\* its result gives back the content the buffer held before the call.
C1_RoundTripWhenEncrypted ==
    RoundTripped => (dec.err = "none" /\ dec.out = orig)

C1_Witness ==
    /\ RoundTripped /\ buf.kind = "bytearray" /\ NKey > 0 /\ Len(orig) > HL
    /\ dec.out = orig /\ buf.data # orig

\* C7: with verification enabled, changing one byte of an encrypted buffer at
\* a position p < header_len makes decrypt fail with HeaderMismatch and return
\* no bytes.
C7_HeaderTamperDetected ==
    (cpc = "decrypted" /\ tamperedAt > 0 /\ tamperedAt <= HL /\ ~ignore_fake_header)
        => (dec.err = "HeaderMismatch" /\ dec.out = << >>)

C7_Witness ==
    /\ cpc = "decrypted" /\ tamperedAt = HL /\ HL = 16 /\ ~ignore_fake_header
    /\ dec.err = "HeaderMismatch"

\* C8: in encrypt and in decrypt the XOR step changes exactly the positions
\* i < min(header_len, number of key bytes, length of the buffer transformed),
\* XORing position i with key byte i, and a key shorter than header_len never
\* makes the operation raise.
C8_KeyLengthTolerance ==
    /\ (Encrypted /\ Len(orig) > 0) =>
          /\ enc.err = "none"
          /\ tamperedAt = 0 => SliceFrom(enc.out, HL) = XorPrefix(orig)
    /\ (cpc = "decrypted" /\ Len(decIn) >= HL /\ SubSeq(decIn, 1, HL) = SubSeq(FakeHeaderBytes, 1, HL)) =>
          /\ dec.err = "none"
          /\ dec.out = XorPrefix(SliceFrom(decIn, HL))

\* C8, on the buffers the XOR step can write to.
C8_KeyLengthToleranceMutable ==
    /\ (Encrypted /\ Len(orig) > 0 /\ buf.kind = "bytearray") =>
          /\ enc.err = "none"
          /\ tamperedAt = 0 => SliceFrom(enc.out, HL) = XorPrefix(orig)
    /\ (cpc = "decrypted" /\ Len(decIn) >= HL /\ SubSeq(decIn, 1, HL) = SubSeq(FakeHeaderBytes, 1, HL)) =>
          /\ dec.err = "none"
          /\ dec.out = XorPrefix(SliceFrom(decIn, HL))

\* C9: encrypt(B) of a non-empty buffer returns
\* FakeHeader || XOR(B[0:header_len]) || B[header_len:], of length
\* len(B) + header_len; with key "1234ABCD", header_len 4 and B = 00 01 02 03 04
\* it returns 52 50 47 4D 12 35 A9 CE 04, which decrypts to 00 01 02 03 04.
ScenarioKey == <<1, 2, 3, 4, 10, 11, 12, 13>>

InScenario == encrypt_code = ScenarioKey /\ header_len = 4 /\ orig = ScenarioBuf

C9_EncryptLayout ==
    /\ (Encrypted /\ Len(orig) > 0 /\ tamperedAt = 0) =>
          /\ enc.err = "none"
          /\ enc.out = SubSeq(FakeHeaderBytes, 1, HL) \o XorPrefix(orig)
          /\ Len(enc.out) = Len(orig) + HL
    /\ (Encrypted /\ InScenario /\ tamperedAt = 0) =>
          enc.out = <<82, 80, 71, 77, 18, 53, 169, 206, 4>>
    /\ (RoundTripped /\ InScenario) => dec.out = ScenarioBuf

\* C9, on the buffers the XOR step can write to.
C9_EncryptLayoutMutable ==
    /\ (Encrypted /\ Len(orig) > 0 /\ tamperedAt = 0 /\ buf.kind = "bytearray") =>
          /\ enc.err = "none"
          /\ enc.out = SubSeq(FakeHeaderBytes, 1, HL) \o XorPrefix(orig)
          /\ Len(enc.out) = Len(orig) + HL
    /\ (Encrypted /\ InScenario /\ tamperedAt = 0 /\ buf.kind = "bytearray") =>
          enc.out = <<82, 80, 71, 77, 18, 53, 169, 206, 4>>
    /\ (RoundTripped /\ InScenario) => dec.out = ScenarioBuf

\* C10: decrypt(E) of a buffer that passes header verification returns
\* XOR(E[header_len : 2*header_len]) || E[2*header_len:]: the header is
\* dropped, only the first header_len bytes of the remainder are XORed with the
\* key bytes, the later bytes pass through, and the output has
\* len(E) - header_len bytes.
PassesVerification(e) ==
    Len(e) >= HL /\ SubSeq(e, 1, HL) = SubSeq(FakeHeaderBytes, 1, HL)

C10_DecryptLayout ==
    (cpc = "decrypted" /\ PassesVerification(decIn)) =>
        /\ dec.err = "none"
        /\ Len(dec.out) = Len(decIn) - HL
        /\ \A i \in 1..Len(dec.out) :
              dec.out[i] = IF i <= HL /\ i <= NKey
                           THEN BitXor(decIn[HL + i], KeyByte(i))
                           ELSE decIn[HL + i]

\* a raw file with a valid header, a key shorter than the header and a
\* remainder longer than it: XORed, untouched-by-short-key and passed-through
\* positions all occur
C10_Witness ==
    /\ cpc = "decrypted" /\ enc.err = "unset" /\ PassesVerification(decIn)
    /\ HL = 2 /\ NKey = 1 /\ Len(decIn) = HL + 3
    /\ dec.out[1] # decIn[HL + 1] /\ dec.out[2] = decIn[HL + 2] /\ dec.out[3] = decIn[HL + 3]

\* 89 50 4E 47 0D 0A 1A 0A 00 00 00 0D 49 48 44 52
CanonicalPngHeader == <<137, 80, 78, 71, 13, 10, 26, 10, 0, 0, 0, 13, 73, 72, 68, 82>>

\* the canonical length L: the header length, at most the 16 bytes of the header
CanonicalLen == Min(HL, Len(CanonicalPngHeader))

\* C18: restore_header on a non-empty buffer returns the first L bytes of
\* 89 50 4E 47 0D 0A 1A 0A 00 00 00 0D 49 48 44 52 followed by the input bytes
\* that came after its leading L bytes; for len(buffer) >= L the output is as
\* long as the input.
C18_RestoreHeader ==
    (cpc = "restored" /\ Len(orig) > 0) =>
        /\ restored.err = "none"
        /\ restored.out = SubSeq(CanonicalPngHeader, 1, CanonicalLen) \o SliceFrom(orig, CanonicalLen)
        /\ Len(orig) >= CanonicalLen => Len(restored.out) = Len(orig)

\* what restore_png_header returns: the canonical header followed by the
\* input bytes from offset 2 * L on.
C18_RestoreHeaderDropsTwice ==
    (cpc = "restored" /\ Len(orig) > 0) =>
        /\ restored.err = "none"
        /\ restored.out = SubSeq(CanonicalPngHeader, 1, CanonicalLen)
                              \o SliceFrom(orig, 2 * CanonicalLen)

EmptyInput == [err |-> "EmptyInput", out |-> << >>]

\* C19: on an empty buffer encrypt, decrypt and restore_header each fail with
\* EmptyInput and return nothing, and the call leaves the key, the key bytes,
\* the header length, the verification switch and the buffer as they were.
C19_EmptyInputRejected ==
    [][(cpc = "start" /\ buf.data = << >>) =>
          /\ cpc' = "encrypted" => enc' = EmptyInput
          /\ cpc' = "decrypted" => dec' = EmptyInput
          /\ cpc' = "restored" => restored' = EmptyInput
          /\ UNCHANGED <<encrypt_code, encryption_code_array, header_len,
                         ignore_fake_header, buf>>]_vars

C19_Witness ==
    /\ cpc = "decrypted" /\ enc = NoResult /\ decIn = << >> /\ orig = << >>
    /\ dec = EmptyInput /\ header_len = NoneVal /\ ~ignore_fake_header

\* C22: decrypt of a non-empty buffer returns if and only if verification is
\* disabled or the buffer has at least header_len bytes and starts with the
\* FakeHeader; in every other case, a buffer shorter than header_len included,
\* it raises and returns no bytes; with verification disabled it never fails
\* with HeaderMismatch.
C22_DecryptSucceedsIff ==
    (cpc = "decrypted" /\ Len(decIn) > 0) =>
        /\ dec.err = "none" <=> (ignore_fake_header \/ PassesVerification(decIn))
        /\ dec.err # "none" => dec.out = << >>
        /\ ignore_fake_header => dec.err # "HeaderMismatch"

\* verification enabled, a buffer shorter than the header that is a prefix of
\* it: the comparison runs off its end and decrypt raises
C22_Witness ==
    /\ cpc = "decrypted" /\ ~ignore_fake_header
    /\ Len(decIn) > 0 /\ Len(decIn) < HL
    /\ decIn = SubSeq(FakeHeaderBytes, 1, Len(decIn))
    /\ dec.err = "IndexError" /\ dec.out = << >>

\* C27: encrypt does not modify the buffer of its caller: once encrypt(B) has
\* returned or raised, B holds the bytes it held before the call, and encrypt
\* accepts an immutable buffer as well as a mutable one.
C27_EncryptLeavesArgument ==
    Encrypted =>
        /\ buf.data = orig
        /\ (Len(orig) > 0 /\ buf.kind = "bytes") => enc.err = "none"

\* what encrypt does to its argument: a bytes object is left alone (and is
\* refused with TypeError as soon as a key byte applies), a bytearray holds
\* the XORed prefix afterwards.
C27_EncryptWritesInPlace ==
    Encrypted =>
        /\ buf.kind = "bytes" => buf.data = orig
        /\ (buf.kind = "bytes" /\ Len(orig) > 0) =>
               (enc.err = "TypeError" <=> NKey > 0 /\ HL > 0)
        /\ buf.kind = "bytearray" => buf.data = XorPrefix(orig)

-----------------------------------------------------------------------------
(* Byte-level reading of a file object *)

\* Integers the fields of a file decode to are kept exact below Huge and are
\* not told apart from it above: every file of the model is far shorter.
Huge == 536870912

\* int.from_bytes(s, 'little'), as struct.unpack('<I' / '<Q') computes it
RECURSIVE LEVal(_)
LEVal(s) ==
    IF Len(s) = 0 THEN 0
    ELSE LET rest == LEVal(Tail(s))
         IN  IF rest >= Huge \div 256 THEN Huge
             ELSE Min(Huge, s[1] + (256 * rest))

\* f.read(n) at position pos: the bytes read (fewer than n at the end of the
\* file, none beyond it) and the position afterwards
FRead(file, pos, n) ==
    LET data == Slice(file, pos, pos + n)
    IN  [data |-> data, pos |-> pos + Len(data)]

\* struct.unpack(fmt, f.read(width))[0]: struct.error on a short read
FUnpack(file, pos, width) ==
    LET r == FRead(file, pos, width)
    IN  IF Len(r.data) < width
        THEN [ok |-> FALSE, val |-> 0, pos |-> r.pos]
        ELSE [ok |-> TRUE, val |-> LEVal(r.data), pos |-> r.pos]

\* bytes.decode('utf-8') succeeds: well-formed UTF-8 (no overlong form, no
\* surrogate, nothing above U+10FFFF). A valid str is kept as its UTF-8 bytes.
IsCont(b) == b >= 128 /\ b <= 191

RECURSIVE ValidUtf8(_)
ValidUtf8(s) ==
    IF Len(s) = 0 THEN TRUE
    ELSE LET b == s[1]
             c(k) == IF Len(s) >= k THEN s[k] ELSE 0
         IN  IF b <= 127 THEN ValidUtf8(SliceFrom(s, 1))
             ELSE IF b >= 194 /\ b <= 223
                  THEN IsCont(c(2)) /\ ValidUtf8(SliceFrom(s, 2))
             ELSE IF b >= 224 /\ b <= 239
                  THEN /\ IsCont(c(2)) /\ IsCont(c(3))
                       /\ (b = 224 => c(2) >= 160)
                       /\ (b = 237 => c(2) <= 159)
                       /\ ValidUtf8(SliceFrom(s, 3))
             ELSE IF b >= 240 /\ b <= 244
                  THEN /\ IsCont(c(2)) /\ IsCont(c(3)) /\ IsCont(c(4))
                       /\ (b = 240 => c(2) >= 144)
                       /\ (b = 244 => c(2) <= 143)
                       /\ ValidUtf8(SliceFrom(s, 4))
             ELSE FALSE

-----------------------------------------------------------------------------
(* extract_godot_pck_builtin: opening and the entry table *)

\* b'GDPC'
GDPC == <<71, 68, 80, 67>>

\* lines 976-986, f standing right after the 4 magic bytes: version, major,
\* minor, patch, 16 reserved words skipped, file_count
ParseHeader(file, start, pos) ==
    LET version == FUnpack(file, pos, 4)
        major   == FUnpack(file, version.pos, 4)
        minor   == FUnpack(file, major.pos, 4)
        patch   == FUnpack(file, minor.pos, 4)
        count   == FUnpack(file, patch.pos + (16 * 4), 4)
    IN  IF version.ok /\ major.ok /\ minor.ok /\ patch.ok /\ count.ok
        THEN [status |-> "ok", pck_start |-> start, pos |-> count.pos,
              file_count |-> count.val]
        ELSE [status |-> "struct.error", pck_start |-> start, pos |-> pos,
              file_count |-> 0]

\* lines 958-986: where the container starts, then its header.
\* f.seek(-12, 2) raises OSError on a file shorter than 12 bytes.
PckOpenFile(file) ==
    LET data == FRead(file, 0, 4)
    IN  IF data.data = GDPC THEN ParseHeader(file, 0, data.pos)
        ELSE IF Len(file) < 12
             THEN [status |-> "OSError", pck_start |-> 0, pos |-> data.pos, file_count |-> 0]
        ELSE LET footer == Slice(file, Len(file) - 12, Len(file))
             IN  IF Slice(footer, 8, 12) = GDPC
                 THEN LET start == LEVal(Slice(footer, 0, 8))
                          again == FRead(file, start, 4)
                      IN  ParseHeader(file, start, again.pos)
                 ELSE [status |-> "InvalidMagic", pck_start |-> 0, pos |-> Len(file),
                       file_count |-> 0]

\* the record read with no check of the bytes read: a field cut short by the
\* end of the file decodes from the bytes there are
ReadEntryUnchecked(file, pos, start) ==
    LET path_len    == FRead(file, pos, 4)
        path        == FRead(file, path_len.pos, LEVal(path_len.data))
        file_offset == FRead(file, path.pos, 8)
        file_size   == FRead(file, file_offset.pos, 8)
        reserved    == FRead(file, file_size.pos, 16)
        none        == [path |-> << >>, offset |-> 0, size |-> 0]
    IN  IF ~ValidUtf8(path.data)
        THEN [status |-> "UnicodeDecodeError", entry |-> none, pos |-> pos]
        ELSE [status |-> "ok",
              entry  |-> [path |-> path.data, offset |-> LEVal(file_offset.data) + start,
                          size |-> LEVal(file_size.data)],
              pos    |-> reserved.pos]

\* the record read with the container's base offset left out of the offset
ReadEntryNoBase(file, pos, start) ==
    LET path_len    == FUnpack(file, pos, 4)
        path        == FRead(file, path_len.pos, path_len.val)
        file_offset == FUnpack(file, path.pos, 8)
        file_size   == FUnpack(file, file_offset.pos, 8)
        reserved    == FRead(file, file_size.pos, 16)
        none        == [path |-> << >>, offset |-> 0, size |-> 0]
    IN  IF ~path_len.ok THEN [status |-> "struct.error", entry |-> none, pos |-> pos]
        ELSE IF ~ValidUtf8(path.data)
             THEN [status |-> "UnicodeDecodeError", entry |-> none, pos |-> pos]
        ELSE IF ~file_offset.ok \/ ~file_size.ok
             THEN [status |-> "struct.error", entry |-> none, pos |-> pos]
        ELSE [status |-> "ok",
              entry  |-> [path |-> path.data, offset |-> file_offset.val,
                          size |-> file_size.val],
              pos    |-> reserved.pos]

\* lines 992-1005: one record of the entry table
ReadEntry(file, pos, start) ==
    LET path_len    == FUnpack(file, pos, 4)
        path        == FRead(file, path_len.pos, path_len.val)
        file_offset == FUnpack(file, path.pos, 8)
        file_size   == FUnpack(file, file_offset.pos, 8)
        reserved    == FRead(file, file_size.pos, 16)
        none        == [path |-> << >>, offset |-> 0, size |-> 0]
    IN  IF ~path_len.ok THEN [status |-> "struct.error", entry |-> none, pos |-> pos]
        ELSE IF ~ValidUtf8(path.data)
             THEN [status |-> "UnicodeDecodeError", entry |-> none, pos |-> pos]
        ELSE IF ~file_offset.ok \/ ~file_size.ok
             THEN [status |-> "struct.error", entry |-> none, pos |-> pos]
        ELSE [status |-> "ok",
              entry  |-> [path |-> path.data, offset |-> file_offset.val + start,
                          size |-> file_size.val],
              pos    |-> reserved.pos]

\* lines 958-1005 in one piece: the entries enumerated from a file
RECURSIVE EnumLoop(_, _, _, _, _)
EnumLoop(file, pos, start, n, acc) ==
    IF n = 0 THEN [status |-> "ok", entries |-> acc]
    ELSE LET r == ReadEntry(file, pos, start)
         IN  IF r.status # "ok" THEN [status |-> r.status, entries |-> acc]
             ELSE EnumLoop(file, r.pos, start, n - 1, Append(acc, r.entry))

Enumerate(file) ==
    LET h == PckOpenFile(file)
    IN  IF h.status # "ok" THEN [status |-> h.status, entries |-> << >>]
        ELSE EnumLoop(file, h.pos, h.pck_start, h.file_count, << >>)

\* lines 1010-1011: f.seek(file_info['offset']); f.read(file_info['size'])
ReadMember(file, info) == FRead(file, info.offset, info.size).data

-----------------------------------------------------------------------------
(* Strings and paths (a str is kept as its UTF-8 bytes) *)

StartsWith(s, pre) == Len(s) >= Len(pre) /\ SubSeq(s, 1, Len(pre)) = pre

EndsWith(s, suf) == Len(s) >= Len(suf) /\ SubSeq(s, Len(s) - Len(suf) + 1, Len(s)) = suf

\* s.find(pat): 0-based index of the first occurrence, -1 when there is none
RECURSIVE FindFrom(_, _, _)
FindFrom(s, pat, i) ==
    IF i + Len(pat) > Len(s) THEN -1
    ELSE IF SubSeq(s, i + 1, i + Len(pat)) = pat THEN i
    ELSE FindFrom(s, pat, i + 1)

Find(s, pat) == FindFrom(s, pat, 0)

\* s.rfind(pat)
RECURSIVE RFindFrom(_, _, _)
RFindFrom(s, pat, i) ==
    IF i < 0 THEN -1
    ELSE IF SubSeq(s, i + 1, i + Len(pat)) = pat THEN i
    ELSE RFindFrom(s, pat, i - 1)

RFind(s, pat) == RFindFrom(s, pat, Len(s) - Len(pat))

\* s.replace(old, new): every non-overlapping occurrence, left to right
RECURSIVE ReplaceAll(_, _, _)
ReplaceAll(s, old, new) ==
    IF Len(s) < Len(old) THEN s
    ELSE IF SubSeq(s, 1, Len(old)) = old
         THEN new \o ReplaceAll(SliceFrom(s, Len(old)), old, new)
    ELSE <<s[1]>> \o ReplaceAll(Tail(s), old, new)

\* '/', '.', '..'
Sep == <<47>>

Dot == <<46>>

DotDot == <<46, 46>>

\* s.rstrip('/')
RECURSIVE RStripSep(_)
RStripSep(s) ==
    IF Len(s) > 0 /\ s[Len(s)] = 47 THEN RStripSep(SubSeq(s, 1, Len(s) - 1)) ELSE s

\* os.path.join(a, b)
PathJoin(a, b) ==
    IF StartsWith(b, Sep) THEN b
    ELSE IF Len(a) = 0 \/ EndsWith(a, Sep) THEN a \o b
    ELSE a \o Sep \o b

\* os.path.dirname(p)
PathDirname(p) ==
    LET head == Slice(p, 0, RFind(p, Sep) + 1)
    IN  IF Len(RStripSep(head)) > 0 THEN RStripSep(head) ELSE head

\* os.path.splitext(p)[0]: the last dot of the last component opens the
\* extension, unless only dots precede it there
RECURSIVE OnlyDots(_, _, _)
OnlyDots(p, i, j) == i >= j \/ (p[i + 1] = 46 /\ OnlyDots(p, i + 1, j))

SplitExtRoot(p) ==
    LET sepIndex == RFind(p, Sep)
        dotIndex == RFind(p, Dot)
    IN  IF dotIndex > sepIndex /\ ~OnlyDots(p, sepIndex + 1, dotIndex)
        THEN Slice(p, 0, dotIndex)
        ELSE p

\* p.split('/')
RECURSIVE SplitPath(_)
SplitPath(p) ==
    LET i == Find(p, Sep)
    IN  IF i = -1 THEN <<p>>
        ELSE <<Slice(p, 0, i)>> \o SplitPath(SliceFrom(p, i + 1))

-----------------------------------------------------------------------------
(* The file system: absolute paths resolved component by component *)

Parent(path) == IF Len(path) = 0 THEN path ELSE SubSeq(path, 1, Len(path) - 1)

Put(files, path, data) ==
    [q \in (DOMAIN files) \cup {path} |-> IF q = path THEN data ELSE files[q]]

\* the directory the components lead to, each one having to be a directory
RECURSIVE WalkDirs(_, _, _)
WalkDirs(dirs, comps, cur) ==
    IF Len(comps) = 0 THEN [ok |-> TRUE, path |-> cur]
    ELSE LET c == Head(comps)
         IN  IF c = << >> \/ c = Dot THEN WalkDirs(dirs, Tail(comps), cur)
             ELSE IF c = DotDot THEN WalkDirs(dirs, Tail(comps), Parent(cur))
             ELSE IF Append(cur, c) \in dirs
                  THEN WalkDirs(dirs, Tail(comps), Append(cur, c))
             ELSE [ok |-> FALSE, path |-> cur]

\* with open(p, 'wb') as f: f.write(data). OSError when a directory on the way
\* is missing or is a file, or when p names a directory.
OpenWrite(files, dirs, p, data) ==
    LET comps  == SplitPath(p)
        parent == WalkDirs(dirs, SubSeq(comps, 1, Len(comps) - 1), << >>)
        last   == comps[Len(comps)]
        target == Append(parent.path, last)
    IN  IF ~parent.ok \/ last \in {<< >>, Dot, DotDot} \/ target \in dirs
        THEN [ok |-> FALSE, files |-> files]
        ELSE [ok |-> TRUE, files |-> Put(files, target, data)]

\* os.makedirs(p, exist_ok=True): every missing directory on the way is
\* created; OSError when a component exists as a file, or p is empty. The
\* directories created before the error stay.
RECURSIVE MkLoop(_, _, _, _)
MkLoop(files, dirs, comps, cur) ==
    IF Len(comps) = 0 THEN [ok |-> TRUE, dirs |-> dirs]
    ELSE LET c   == Head(comps)
             nxt == Append(cur, c)
         IN  IF c = << >> \/ c = Dot THEN MkLoop(files, dirs, Tail(comps), cur)
             ELSE IF c = DotDot THEN MkLoop(files, dirs, Tail(comps), Parent(cur))
             ELSE IF nxt \in dirs THEN MkLoop(files, dirs, Tail(comps), nxt)
             ELSE IF nxt \in DOMAIN files THEN [ok |-> FALSE, dirs |-> dirs]
             ELSE MkLoop(files, dirs \cup {nxt}, Tail(comps), nxt)

makedirs(files, dirs, p) ==
    IF Len(p) = 0 THEN [ok |-> FALSE, dirs |-> dirs]
    ELSE MkLoop(files, dirs, SplitPath(p), << >>)

-----------------------------------------------------------------------------
(* convert_stex_to_png and the member loop *)

\* b'\x89PNG\r\n\x1a\n'
png_sig == <<137, 80, 78, 71, 13, 10, 26, 10>>

\* b'RIFF'
webp_sig == <<82, 73, 70, 70>>

\* b'WEBP'
WEBP == <<87, 69, 66, 80>>

\* 'res://', '.stex', '.png', '.webp'
ResPrefix == <<114, 101, 115, 58, 47, 47>>

ExtStex == <<46, 115, 116, 101, 120>>

ExtPng == <<46, 112, 110, 103>>

ExtWebp == <<46, 119, 101, 98, 112>>

\* What Image.open(webp_path).save(output_path, 'PNG') leaves in output_path:
\* a PNG re-encoding by Pillow, kept as the signature followed by the payload
\* of the WebP container it was decoded from.
PillowPng(webp) == png_sig \o SliceFrom(webp, 12)

\* the PNG branch writing the whole blob instead of the slice that starts at
\* the signature
convert_stex_to_png_whole_blob(files, dirs, stex_data, output_path, pil) ==
    LET png_start  == Find(stex_data, png_sig)
        asPng      == OpenWrite(files, dirs, output_path, stex_data)
        raw_path   == ReplaceAll(output_path, ExtPng, ExtStex)
        asRaw      == OpenWrite(files, dirs, raw_path, stex_data)
    IN  IF png_start # -1
        THEN [ret |-> asPng.ok, files |-> asPng.files]
        ELSE [ret |-> FALSE, files |-> asRaw.files]

\* convert_stex_to_png(stex_data, output_path): [ret, files]. pil is
\* "missing" (PIL_AVAILABLE False), "ok" or "fails" (Image.open or save raises).
\* Any OSError of the writes is caught by the function's own except: False.
convert_stex_to_png(files, dirs, stex_data, output_path, pil) ==
    LET png_start  == Find(stex_data, png_sig)
        webp_start == Find(stex_data, webp_sig)
        asPng      == OpenWrite(files, dirs, output_path, SliceFrom(stex_data, png_start))
        webp_path  == ReplaceAll(output_path, ExtPng, ExtWebp)
        webp_data  == SliceFrom(stex_data, webp_start)
        asWebp     == OpenWrite(files, dirs, webp_path, webp_data)
        saved      == OpenWrite(asWebp.files, dirs, output_path, PillowPng(webp_data))
        webpTarget == Append(WalkDirs(dirs, SubSeq(SplitPath(webp_path), 1, Len(SplitPath(webp_path)) - 1), << >>).path,
                             SplitPath(webp_path)[Len(SplitPath(webp_path))])
        removed    == [q \in (DOMAIN saved.files) \ {webpTarget} |-> saved.files[q]]
        raw_path   == ReplaceAll(output_path, ExtPng, ExtStex)
        asRaw      == OpenWrite(files, dirs, raw_path, stex_data)
    IN  IF png_start # -1
        THEN [ret |-> asPng.ok, files |-> asPng.files]
        ELSE IF webp_start # -1 /\ Slice(stex_data, webp_start + 8, webp_start + 12) = WEBP
             THEN IF ~asWebp.ok THEN [ret |-> FALSE, files |-> files]
                  ELSE IF pil = "ok" /\ saved.ok
                       THEN [ret |-> TRUE, files |-> removed]
                  ELSE [ret |-> TRUE, files |-> asWebp.files]
        ELSE [ret |-> FALSE, files |-> asRaw.files]

\* the member loop giving up a texture the converter returned False for
ExtractMemberNoFallback(file, info, out_dir, files, dirs, pil) ==
    LET file_data   == ReadMember(file, info)
        output_path == PathJoin(out_dir, ReplaceAll(info.path, ResPrefix, << >>))
        made        == makedirs(files, dirs, PathDirname(output_path))
        png_path    == ReplaceAll(output_path, ExtStex, ExtPng)
        conv        == convert_stex_to_png(files, made.dirs, file_data, png_path, pil)
        written     == OpenWrite(files, made.dirs, output_path, file_data)
    IN  IF ~made.ok
        THEN [counted |-> FALSE, err |-> "OSError", files |-> files, dirs |-> made.dirs]
        ELSE IF EndsWith(output_path, ExtStex)
             THEN [counted |-> conv.ret, err |-> "none",
                   files |-> IF conv.ret THEN conv.files ELSE files, dirs |-> made.dirs]
        ELSE [counted |-> written.ok, err |-> IF written.ok THEN "none" ELSE "OSError",
              files |-> written.files, dirs |-> made.dirs]

\* lines 1009-1029: one iteration of the member loop, [counted, err, files,
\* dirs]. An exception of the body (err) is caught by the loop and the member
\* skipped.
ExtractMember(file, info, out_dir, files, dirs, pil) ==
    LET file_data   == ReadMember(file, info)
        output_path == PathJoin(out_dir, ReplaceAll(info.path, ResPrefix, << >>))
        made        == makedirs(files, dirs, PathDirname(output_path))
        png_path    == ReplaceAll(output_path, ExtStex, ExtPng)
        conv        == convert_stex_to_png(files, made.dirs, file_data, png_path, pil)
        filesIn     == IF EndsWith(output_path, ExtStex) THEN conv.files ELSE files
        written     == OpenWrite(filesIn, made.dirs, output_path, file_data)
    IN  IF ~made.ok
        THEN [counted |-> FALSE, err |-> "OSError", files |-> files, dirs |-> made.dirs]
        ELSE IF EndsWith(output_path, ExtStex) /\ conv.ret
             THEN [counted |-> TRUE, err |-> "none", files |-> conv.files, dirs |-> made.dirs]
        ELSE [counted |-> written.ok, err |-> IF written.ok THEN "none" ELSE "OSError",
              files |-> written.files, dirs |-> made.dirs]

-----------------------------------------------------------------------------
(* process_godot_imports *)

\* '.import', 'source_file=', '"', '\n', '='
ExtImport == <<46, 105, 109, 112, 111, 114, 116>>

SourceFileKey == <<115, 111, 117, 114, 99, 101, 95, 102, 105, 108, 101, 61>>

\* s.split(c) on one character
RECURSIVE SplitOn(_, _)
SplitOn(s, c) ==
    LET i == Find(s, <<c>>)
    IN  IF i = -1 THEN <<s>>
        ELSE <<Slice(s, 0, i)>> \o SplitOn(SliceFrom(s, i + 1), c)

\* s.strip('"')
RECURSIVE LStripQuote(_)
LStripQuote(s) == IF Len(s) > 0 /\ s[1] = 34 THEN LStripQuote(Tail(s)) ELSE s

RECURSIVE RStripQuote(_)
RStripQuote(s) ==
    IF Len(s) > 0 /\ s[Len(s)] = 34 THEN RStripQuote(SubSeq(s, 1, Len(s) - 1)) ELSE s

StripQuote(s) == RStripQuote(LStripQuote(s))

\* f.read() of a file opened in text mode: '\r\n' and '\r' become '\n'
RECURSIVE UniversalNewlines(_)
UniversalNewlines(s) ==
    IF Len(s) = 0 THEN s
    ELSE IF s[1] = 13
         THEN <<10>> \o UniversalNewlines(SliceFrom(s, IF Len(s) >= 2 /\ s[2] = 10 THEN 2 ELSE 1))
    ELSE <<s[1]>> \o UniversalNewlines(Tail(s))

\* the path string of a resolved path
RECURSIVE PathString(_)
PathString(path) ==
    IF Len(path) = 0 THEN << >> ELSE Sep \o Head(path) \o PathString(Tail(path))

\* os.path.exists(p)
PathExists(files, dirs, p) ==
    LET comps  == SplitPath(p)
        parent == WalkDirs(dirs, SubSeq(comps, 1, Len(comps) - 1), << >>)
        last   == comps[Len(comps)]
        target == Append(parent.path, last)
    IN  /\ parent.ok
        /\ \/ last \in {<< >>, Dot, DotDot}
           \/ target \in dirs
           \/ target \in DOMAIN files

\* the file p resolves to, << >> standing for "not a regular file"
FileAt(files, dirs, p) ==
    LET comps  == SplitPath(p)
        parent == WalkDirs(dirs, SubSeq(comps, 1, Len(comps) - 1), << >>)
        target == Append(parent.path, comps[Len(comps)])
    IN  IF parent.ok /\ target \in DOMAIN files THEN <<target>> ELSE << >>

\* the first line that starts with 'source_file=', << >> when there is none
RECURSIVE FirstSourceLine(_)
FirstSourceLine(lines) ==
    IF Len(lines) = 0 THEN << >>
    ELSE IF StartsWith(Head(lines), SourceFileKey) THEN <<Head(lines)>>
    ELSE FirstSourceLine(Tail(lines))

\* the body of the loop copying over a destination that exists
ProcessImportOverwrite(files, dirs, directory, import_file) ==
    LET raw       == files[import_file]
        content   == UniversalNewlines(raw)
        found     == FirstSourceLine(SplitOn(content, 10))
        line      == found[1]
        source    == ReplaceAll(StripQuote(SliceFrom(line, Find(line, <<61>>) + 1)), ResPrefix, << >>)
        source_path == PathJoin(directory, source)
        import_str  == PathString(import_file)
        dest_path   == Slice(import_str, 0, Len(import_str) - 7)
        src       == FileAt(files, dirs, source_path)
        copied    == OpenWrite(files, dirs, dest_path, files[src[1]])
        skip      == [recovered |-> 0, files |-> files]
    IN  IF ~ValidUtf8(raw) \/ Len(found) = 0 THEN skip
        ELSE IF ~PathExists(files, dirs, source_path) THEN skip
        ELSE IF Len(src) = 0 \/ ~copied.ok THEN skip
        ELSE [recovered |-> 1, files |-> copied.files]

\* lines 1105-1126: the body of the loop for one import file, [recovered, files]
ProcessImport(files, dirs, directory, import_file) ==
    LET raw       == files[import_file]
        content   == UniversalNewlines(raw)
        found     == FirstSourceLine(SplitOn(content, 10))
        line      == found[1]
        source    == ReplaceAll(StripQuote(SliceFrom(line, Find(line, <<61>>) + 1)), ResPrefix, << >>)
        source_path == PathJoin(directory, source)
        import_str  == PathString(import_file)
        dest_path   == Slice(import_str, 0, Len(import_str) - 7)
        src       == FileAt(files, dirs, source_path)
        copied    == OpenWrite(files, dirs, dest_path, files[src[1]])
        skip      == [recovered |-> 0, files |-> files]
    IN  IF ~ValidUtf8(raw) \/ Len(found) = 0 THEN skip
        ELSE IF ~PathExists(files, dirs, source_path) THEN skip
        ELSE IF PathExists(files, dirs, dest_path) THEN skip
        ELSE IF Len(src) = 0 \/ ~copied.ok THEN skip
        ELSE [recovered |-> 1, files |-> copied.files]

RECURSIVE ImportLoop(_, _, _, _, _)
ImportLoop(files, dirs, directory, import_files, n) ==
    IF Len(import_files) = 0 THEN [recovered |-> n, files |-> files]
    ELSE LET r == ProcessImport(files, dirs, directory, Head(import_files))
         IN  ImportLoop(r.files, dirs, directory, Tail(import_files), n + r.recovered)

\* every order in which the elements of S can be listed
RECURSIVE Perms(_)
Perms(S) ==
    IF S = {} THEN { << >> }
    ELSE UNION { { <<x>> \o t : t \in Perms(S \ {x}) } : x \in S }

\* every concatenation of one sequence per element of a sequence of sets
RECURSIVE Concats(_)
Concats(sets) ==
    IF Len(sets) = 0 THEN { << >> }
    ELSE { a \o b : a \in Head(sets), b \in Concats(Tail(sets)) }

\* lines 1093-1096: the '.import' files os.walk(directory) finds, in each order
\* the walk can list them: top-down, the files of a directory before its
\* subdirectories, the entries of one directory in any order
RECURSIVE WalkImports(_, _, _)
WalkImports(files, dirs, root) ==
    LET here == { q \in DOMAIN files : Parent(q) = root /\ EndsWith(q[Len(q)], ExtImport) }
        subs == { d \in dirs : Len(d) > 0 /\ Parent(d) = root }
    IN  UNION { { a \o b : a \in Perms(here),
                           b \in Concats([i \in 1..Len(order) |-> WalkImports(files, dirs, order[i])]) }
                : order \in Perms(subs) }

-----------------------------------------------------------------------------
(* Archives on disk: how the files the extraction is given are laid out *)

\* most entries an archive of the model holds
MaxEntries == 2

\* the entries a header declares beyond those of its table, when it declares
\* far more than the file could hold
ManyEntries == 30

\* struct.pack('<I', n), struct.pack('<Q', n) for n < 2^32
U32(n) == <<n % 256, (n \div 256) % 256, (n \div 65536) % 256, (n \div 16777216) % 256>>

U64(n) == U32(n) \o <<0, 0, 0, 0>>

Zeros(n) == [i \in 1..n |-> 0]

\* magic, version, major, minor, patch, 16 reserved words, entry count
HeaderBytes(count) ==
    GDPC \o U32(1) \o U32(3) \o U32(5) \o U32(0) \o Zeros(64) \o U32(count)

\* path_len, path, offset, size, 16 reserved bytes
RecordBytes(path, offset, size) ==
    U32(Len(path)) \o path \o U64(offset) \o U64(size) \o Zeros(16)

RECURSIVE TableLen(_)
TableLen(ms) == IF Len(ms) = 0 THEN 0 ELSE 36 + Len(Head(ms).path) + TableLen(Tail(ms))

RECURSIVE DataBytes(_)
DataBytes(ms) == IF Len(ms) = 0 THEN << >> ELSE Head(ms).data \o DataBytes(Tail(ms))

\* the records of ms, the data of the first one stored at offset at; a member
\* marked "beyond" records an offset past the end of the container
RECURSIVE TableBytes(_, _, _)
TableBytes(ms, at, total) ==
    IF Len(ms) = 0 THEN << >>
    ELSE LET m == Head(ms)
         IN  RecordBytes(m.path, IF m.bad = "beyond" THEN total + 3 ELSE at, Len(m.data))
             \o TableBytes(Tail(ms), at + Len(m.data), total)

\* a container holding the members ms, its header declaring count entries
Container(ms, count) ==
    LET tableEnd == 88 + TableLen(ms)
        total    == tableEnd + Len(DataBytes(ms))
    IN  HeaderBytes(count) \o TableBytes(ms, tableEnd, total) \o DataBytes(ms)

\* the members archives are made of: [path, data, bad]
\* 'res://a'
MemberA == [path |-> ResPrefix \o <<97>>, data |-> <<1, 2>>, bad |-> "no"]

\* 'res://../e'
MemberEscape == [path |-> ResPrefix \o <<46, 46, 47, 101>>, data |-> <<3>>, bad |-> "unsafe"]

\* 'res://d/t.stex', a texture wrapping a PNG
MemberPngTex == [path |-> ResPrefix \o <<100, 47, 116>> \o ExtStex,
                 data |-> <<9>> \o png_sig \o <<7>>, bad |-> "no"]

\* 'res://w.stex', a texture wrapping a WebP
MemberWebpTex == [path |-> ResPrefix \o <<119>> \o ExtStex,
                  data |-> <<9>> \o webp_sig \o <<1, 0, 0, 0>> \o WEBP \o <<7>>, bad |-> "no"]

\* 'res://b', its recorded offset past the end of the container
MemberBeyond == [path |-> ResPrefix \o <<98>>, data |-> <<4, 5>>, bad |-> "beyond"]

\* a path that is not UTF-8
MemberNotUtf8 == [path |-> <<255>>, data |-> <<6>>, bad |-> "undecodable"]

\* 'res://', which names the output directory itself
MemberNoName == [path |-> ResPrefix, data |-> <<8>>, bad |-> "unwritable"]

\* 'res://x.import' holding  source_file="res://a"
MemberImport == [path |-> ResPrefix \o <<120>> \o ExtImport,
                 data |-> SourceFileKey \o <<34>> \o ResPrefix \o <<97, 34, 10>>, bad |-> "no"]

Members == {MemberA, MemberEscape, MemberPngTex, MemberWebpTex, MemberBeyond,
            MemberNotUtf8, MemberNoName, MemberImport}

\* 'MZ', the start of a host executable; 'GDPC', a host that starts like a container
Hosts == { << >>, <<77, 90>>, GDPC }

\* the layouts: a container alone, whole or cut short inside its entry table
\* (cut bytes before the table's end) or declaring extra entries; a container
\* whose magic is overwritten; a file too short to hold a footer; a container
\* appended to a host with the 12-byte footer, its base right or 4 too large
Layouts ==
    { [layout |-> "plain", host |-> << >>, cut |-> c, extra |-> 0] : c \in {0, 8, 20, 34} }
    \cup { [layout |-> "plain", host |-> << >>, cut |-> 0, extra |-> x] : x \in {1, ManyEntries} }
    \cup { [layout |-> "nomagic", host |-> << >>, cut |-> 0, extra |-> 0] }
    \cup { [layout |-> "tiny", host |-> << >>, cut |-> 0, extra |-> 0] }
    \cup { [layout |-> "sfx", host |-> h, cut |-> 0, extra |-> 0] : h \in Hosts }
    \cup { [layout |-> "sfx_badbase", host |-> <<77, 90>>, cut |-> 0, extra |-> 0] }

\* the container part of the file
ContainerOf(g) ==
    LET whole == Container(g.ms, Len(g.ms) + g.extra)
    IN  IF g.cut = 0 THEN whole
        ELSE SubSeq(whole, 1, Max(88, 88 + TableLen(g.ms) - g.cut))

FileOf(g) ==
    LET c == ContainerOf(g)
    IN  CASE g.layout = "plain" -> c
          [] g.layout = "nomagic" -> <<88>> \o Tail(c)
          [] g.layout = "tiny" -> <<77, 90, 0>>
          [] g.layout = "sfx" -> g.host \o c \o U64(Len(g.host)) \o GDPC
          [] g.layout = "sfx_badbase" -> g.host \o c \o U64(Len(g.host) + 4) \o GDPC

-----------------------------------------------------------------------------
(* extract_godot_pck_builtin, step by step *)

\* '/g/p.pck'
pck_path == <<47, 103, 47, 112, 46, 112, 99, 107>>

\* '_extracted'
ExtractedSuffix == <<95, 101, 120, 116, 114, 97, 99, 116, 101, 100>>

\* line 954
output_dir == SplitExtRoot(pck_path) \o ExtractedSuffix

\* the directory '/g' and the output directory, resolved
GameDir == << <<103>> >>

OutDir == << <<103>>, <<112>> \o ExtractedSuffix >>

\* '/g/e', a file beside the archive
SiblingFile == << <<103>>, <<101>> >>

CipherIdle ==
    /\ encrypt_code = << >>
    /\ encryption_code_array = << >>
    /\ header_len = NoneVal
    /\ ignore_fake_header = FALSE
    /\ buf = [kind |-> "bytes", data |-> << >>]
    /\ orig = << >>
    /\ enc = NoResult
    /\ tamperedAt = 0
    /\ decIn = << >>
    /\ dec = NoResult
    /\ cpc = "idle"
    /\ restored = NoResult

PckInit ==
    /\ \E lay \in Layouts : \E ms \in SeqsUpTo(Members, MaxEntries) :
          gen = [ms |-> ms, layout |-> lay.layout, host |-> lay.host,
                 cut |-> lay.cut, extra |-> lay.extra]
    /\ pck_file = FileOf(gen)
    /\ ppc = "unopened"
    /\ pck_start = 0
    /\ fpos = 0
    /\ file_count = 0
    /\ files_info = << >>
    /\ next_member = 0
    /\ extracted_count = 0
    /\ fs_files = [q \in {SiblingFile} |-> <<0>>]
    /\ fs_dirs = { << >>, GameDir }
    /\ ret = "none"
    /\ pck_error = "none"
    /\ recovered = 0
    \* PIL_AVAILABLE is read only when a WebP texture is met (line 1064)
    /\ PIL_AVAILABLE \in (IF \E i \in 1..Len(gen.ms) : gen.ms[i] = MemberWebpTex
                          THEN BOOLEAN ELSE {FALSE})
    \* debug_mode is read only where a member's exception is caught (line 1028)
    /\ debug_mode \in (IF \E i \in 1..Len(gen.ms) : gen.ms[i] = MemberNoName
                       THEN BOOLEAN ELSE {FALSE})
    /\ pck_out = << >>
    /\ CipherIdle
    /\ BatchIdle

\* lines 954-986: the output directory is made, the file opened, the header read
PckOpen ==
    /\ ppc = "unopened"
    /\ \E made \in { makedirs(fs_files, fs_dirs, output_dir) }, r \in { PckOpenFile(pck_file) } :
           /\ fs_dirs' = made.dirs
           /\ pck_start' = r.pck_start
           /\ fpos' = r.pos
           /\ file_count' = r.file_count
           /\ IF r.status = "ok"
              THEN /\ ppc' = IF r.file_count = 0 THEN "extracting" ELSE "enumerating"
                   /\ UNCHANGED <<ret, pck_error, pck_out>>
              ELSE /\ ppc' = "closed"
                   /\ ret' = "False"
                   /\ pck_error' = r.status
                   /\ pck_out' = Append(pck_out,
                                        IF r.status = "InvalidMagic"
                                        THEN [line |-> "invalid"]
                                        ELSE [line |-> "failed", reason |-> r.status])
    /\ UNCHANGED <<pck_file, gen, files_info, next_member, extracted_count, fs_files,
                   recovered, PIL_AVAILABLE, debug_mode>>
    /\ UNCHANGED cvars
    /\ UNCHANGED bvars

\* lines 990-1005: one iteration of the entry-table loop
PckReadEntry ==
    /\ ppc = "enumerating"
    /\ \E r \in { ReadEntry(pck_file, fpos, pck_start) } :
           IF r.status = "ok"
           THEN /\ files_info' = Append(files_info, r.entry)
                /\ fpos' = r.pos
                /\ ppc' = IF Len(files_info) + 1 = file_count THEN "extracting" ELSE "enumerating"
                /\ UNCHANGED <<ret, pck_error, pck_out>>
           ELSE /\ ppc' = "closed"
                /\ ret' = "False"
                /\ pck_error' = r.status
                /\ pck_out' = Append(pck_out, [line |-> "failed", reason |-> r.status])
                /\ UNCHANGED <<files_info, fpos>>
    /\ UNCHANGED <<pck_file, gen, pck_start, file_count, next_member, extracted_count,
                   fs_files, fs_dirs, recovered, PIL_AVAILABLE, debug_mode>>
    /\ UNCHANGED cvars
    /\ UNCHANGED bvars

\* lines 1008-1029: one iteration of the member loop
PckExtractMember ==
    /\ ppc = "extracting"
    /\ next_member < Len(files_info)
    /\ \E pil \in (IF PIL_AVAILABLE THEN {"ok", "fails"} ELSE {"missing"}) :
          \E r \in { ExtractMember(pck_file, files_info[next_member + 1], output_dir,
                                   fs_files, fs_dirs, pil) } :
              /\ fs_files' = r.files
              /\ fs_dirs' = r.dirs
              /\ extracted_count' = extracted_count + (IF r.counted THEN 1 ELSE 0)
              /\ pck_out' = IF r.err # "none" /\ debug_mode
                            THEN Append(pck_out, [line |-> "error",
                                                  path |-> files_info[next_member + 1].path,
                                                  reason |-> r.err])
                            ELSE pck_out
    /\ next_member' = next_member + 1
    /\ UNCHANGED <<pck_file, gen, ppc, pck_start, fpos, file_count, files_info, ret,
                   pck_error, recovered, PIL_AVAILABLE, debug_mode>>
    /\ UNCHANGED cvars
    /\ UNCHANGED bvars

\* the sidecar pass and the return not waiting for the member loop to end
PckFinishEarly ==
    /\ ppc = "extracting"
    /\ next_member <= Len(files_info)
    /\ \E import_files \in WalkImports(fs_files, fs_dirs, OutDir) :
          \E r \in { ImportLoop(fs_files, fs_dirs, output_dir, import_files, 0) } :
              /\ fs_files' = r.files
              /\ recovered' = r.recovered
    /\ pck_out' = Append(pck_out, [line |-> "summary", extracted |-> extracted_count])
    /\ ppc' = "closed"
    /\ ret' = "True"
    /\ UNCHANGED <<pck_file, gen, pck_start, fpos, file_count, files_info, next_member,
                   extracted_count, fs_dirs, pck_error, PIL_AVAILABLE, debug_mode>>
    /\ UNCHANGED cvars
    /\ UNCHANGED bvars

\* lines 1031-1035: the summary, process_godot_imports(output_dir), return True
PckFinish ==
    /\ ppc = "extracting"
    /\ next_member = Len(files_info)
    /\ \E import_files \in WalkImports(fs_files, fs_dirs, OutDir) :
          \E r \in { ImportLoop(fs_files, fs_dirs, output_dir, import_files, 0) } :
              /\ fs_files' = r.files
              /\ recovered' = r.recovered
    /\ pck_out' = Append(pck_out, [line |-> "summary", extracted |-> extracted_count])
    /\ ppc' = "closed"
    /\ ret' = "True"
    /\ UNCHANGED <<pck_file, gen, pck_start, fpos, file_count, files_info, next_member,
                   extracted_count, fs_dirs, pck_error, PIL_AVAILABLE, debug_mode>>
    /\ UNCHANGED cvars
    /\ UNCHANGED bvars

PckNext == PckOpen \/ PckReadEntry \/ PckExtractMember \/ PckFinish

SpecPck == PckInit /\ [][PckNext]_vars

-----------------------------------------------------------------------------
(* Properties of the archive extraction *)

IsUnder(root, path) == Len(path) >= Len(root) /\ SubSeq(path, 1, Len(root)) = root

\* the recorded path, its virtual root removed, has a '..' segment
HasDotDot(path) ==
    \E i \in 1..Len(SplitPath(ReplaceAll(path, ResPrefix, << >>))) :
        SplitPath(ReplaceAll(path, ResPrefix, << >>))[i] = DotDot

\* C2: an entry whose recorded path leaves the destination root through a '..'
\* segment is rejected, and nothing is created outside the destination root:
\* every file an extraction writes lies under the output directory.
C2_PathSafety ==
    /\ \A q \in DOMAIN fs_files :
          IsUnder(OutDir, q) \/ (q = SiblingFile /\ fs_files[q] = <<0>>)
    /\ \A d \in fs_dirs : d \in { << >>, GameDir } \/ IsUnder(OutDir, d)
    /\ extracted_count <=
          Cardinality({ i \in 1..next_member : ~HasDotDot(files_info[i].path) })

\* C3: for a container whose header is at offset 0 and declares N entries,
\* enumeration yields exactly N descriptors, each with
\* offset + size <= length of the file.
Enumerated == ppc = "extracting" \/ (ppc = "closed" /\ ret = "True")

C3_OffsetsInBounds ==
    (Enumerated /\ pck_start = 0) =>
        /\ Len(files_info) = file_count
        /\ \A i \in 1..Len(files_info) :
              files_info[i].offset + files_info[i].size <= Len(pck_file)

\* the file a sound member is to leave in the output directory: the sets of
\* acceptable [path, data] outcomes ({} for a member that is not sound)
Expected(m) ==
    IF m = MemberA THEN { [path |-> Append(OutDir, <<97>>), data |-> m.data] }
    ELSE IF m = MemberPngTex
         THEN { [path |-> OutDir \o << <<100>>, <<116>> \o ExtPng >>, data |-> SliceFrom(m.data, 1)] }
    ELSE IF m = MemberWebpTex
         THEN { [path |-> Append(OutDir, <<119>> \o ExtWebp), data |-> SliceFrom(m.data, 1)],
                [path |-> Append(OutDir, <<119>> \o ExtPng), data |-> PillowPng(SliceFrom(m.data, 1))] }
    ELSE IF m = MemberImport
         THEN { [path |-> Append(OutDir, <<120>> \o ExtImport), data |-> m.data] }
    ELSE {}

Sound(m) == Expected(m) # {}

WasExtracted(m) ==
    \E x \in Expected(m) : x.path \in DOMAIN fs_files /\ fs_files[x.path] = x.data

\* an archive with a readable header at offset 0 in which one entry is corrupt
OneCorruptEntry ==
    /\ gen.layout = "plain" /\ gen.cut = 0 /\ gen.extra = 0
    /\ Cardinality({ i \in 1..Len(gen.ms) : ~Sound(gen.ms[i]) }) = 1

\* C4: if one entry of an archive is corrupt or truncated (its record cannot be
\* read or decoded, or its data cannot be read or written), the extraction is
\* not aborted: every other entry is still extracted.
C4_PartialSuccess ==
    (ppc = "closed" /\ OneCorruptEntry) =>
        \A i \in 1..Len(gen.ms) : Sound(gen.ms[i]) => WasExtracted(gen.ms[i])

\* C4, for the entries whose record is readable: a member whose data cannot be
\* written, or whose offset is out of range, does not stop the other members.
C4_PartialSuccessOfMembers ==
    (ppc = "closed" /\ OneCorruptEntry /\ \A i \in 1..Len(gen.ms) : gen.ms[i] # MemberNotUtf8) =>
        \A i \in 1..Len(gen.ms) : Sound(gen.ms[i]) => WasExtracted(gen.ms[i])

\* the header, the entry table or a member of the archive has been read
ParsedSomething ==
    \/ ppc \in {"enumerating", "extracting"}
    \/ file_count # 0
    \/ files_info # << >>
    \/ ret = "True"
    \/ pck_error \in {"struct.error", "UnicodeDecodeError"}

\* C5: a container is parsed only if the 4 bytes at its header base (0, or the
\* offset of the trailing footer) are "GDPC"; otherwise open fails and no
\* header field, entry or member is read.
C5_MagicChecked ==
    ParsedSomething => Slice(pck_file, pck_start, pck_start + 4) = GDPC

\* a well-formed container: magic at 0, a complete table, every entry inside it
ValidContainer(c) ==
    /\ Slice(c, 0, 4) = GDPC
    /\ Enumerate(c).status = "ok"
    /\ \A i \in 1..Len(Enumerate(c).entries) :
          Enumerate(c).entries[i].offset + Enumerate(c).entries[i].size <= Len(c)

SelfExtracting ==
    /\ gen.layout = "sfx"
    /\ ~StartsWith(gen.host, GDPC)
    /\ ValidContainer(ContainerOf(gen))

\* C6: for a file H || C || footer (C a valid container, H a host of length
\* base that does not start with "GDPC", the footer holding base and "GDPC"),
\* enumeration yields the entries of C alone: same paths, same sizes, same
\* member bytes, each offset shifted by base.
C6_SelfExtractingSameEntries ==
    (Enumerated /\ SelfExtracting) =>
        LET c    == ContainerOf(gen)
            ref  == Enumerate(c).entries
            base == Len(gen.host)
        IN  /\ Len(files_info) = Len(ref)
            /\ \A i \in 1..Len(ref) :
                  /\ files_info[i].path = ref[i].path
                  /\ files_info[i].size = ref[i].size
                  /\ files_info[i].offset = ref[i].offset + base
                  /\ ReadMember(pck_file, files_info[i]) = ReadMember(c, ref[i])

C6_Witness ==
    /\ Enumerated /\ SelfExtracting /\ gen.host = <<77, 90>>
    /\ Len(files_info) = 2
    /\ ReadMember(pck_file, files_info[2]) = gen.ms[2].data
    /\ files_info[2].offset = Enumerate(ContainerOf(gen)).entries[2].offset + 2

\* the file ends inside the last record of the entry table its header declares
TruncatedTable == gen.layout = "plain" /\ gen.cut > 0 /\ TableLen(gen.ms) > 0

\* C12: when the file ends before a complete entry record (path length, path,
\* offset, size, 16 reserved bytes) has been read, enumeration fails: no
\* member is extracted and the extraction ends with an error; this includes a
\* file ending inside the path or inside the reserved block of the last entry.
C12_TruncatedEntry ==
    TruncatedTable =>
        /\ ~Enumerated
        /\ ppc = "closed" => (ret = "False" /\ pck_error # "none")

\* C12, for a file that ends before the reserved block of the last record.
C12_TruncatedBeforeReserved ==
    (TruncatedTable /\ gen.cut > 16) =>
        /\ ~Enumerated
        /\ ppc = "closed" => (ret = "False" /\ pck_error # "none")

\* C20: a member that is counted as extracted and does not go through
\* convert_stex_to_png leaves a file of exactly size bytes, equal to
\* file[offset : offset + size]; a member whose offset + size is beyond the
\* end of the file is not counted with fewer bytes.
C20_ExactMemberBytes ==
    [][(ppc = "extracting" /\ next_member' = next_member + 1
            /\ extracted_count' = extracted_count + 1) =>
          LET info        == files_info[next_member + 1]
              output_path == PathJoin(output_dir, ReplaceAll(info.path, ResPrefix, << >>))
              target      == FileAt(fs_files', fs_dirs', output_path)
          IN  ~EndsWith(output_path, ExtStex) =>
                 /\ Len(target) = 1
                 /\ Len(fs_files'[target[1]]) = info.size
                 /\ fs_files'[target[1]] = Slice(pck_file, info.offset, info.offset + info.size)
                 /\ info.offset + info.size <= Len(pck_file)]_vars

\* C20, for the members whose bytes lie inside the file.
C20_ExactBytesInBounds ==
    [][(ppc = "extracting" /\ next_member' = next_member + 1
            /\ extracted_count' = extracted_count + 1) =>
          LET info        == files_info[next_member + 1]
              output_path == PathJoin(output_dir, ReplaceAll(info.path, ResPrefix, << >>))
              target      == FileAt(fs_files', fs_dirs', output_path)
          IN  (~EndsWith(output_path, ExtStex) /\ info.offset + info.size <= Len(pck_file)) =>
                 /\ Len(target) = 1
                 /\ Len(fs_files'[target[1]]) = info.size
                 /\ fs_files'[target[1]] = Slice(pck_file, info.offset, info.offset + info.size)]_vars

\* the step is an iteration of the member loop that did not count its member
MemberStepFailed ==
    ppc = "extracting" /\ next_member' = next_member + 1 /\ extracted_count' = extracted_count

\* C25: every member whose extraction fails is reported with its name and the
\* reason, whatever debug_mode is, and the summary of the extraction tells the
\* failed members from the extracted ones.
C25_FailuresReported ==
    [][/\ MemberStepFailed =>
             /\ Len(pck_out') = Len(pck_out) + 1
             /\ pck_out'[Len(pck_out')].line = "error"
             /\ pck_out'[Len(pck_out')].path = files_info[next_member + 1].path
             /\ pck_out'[Len(pck_out')].reason # "none"
       /\ (ppc = "extracting" /\ ppc' = "closed") =>
             /\ pck_out'[Len(pck_out')].line = "summary"
             /\ "failed" \in DOMAIN pck_out'[Len(pck_out')]
             /\ pck_out'[Len(pck_out')].failed = next_member - extracted_count]_vars

\* what is printed: the error of a member in debug mode only, and a summary
\* that holds the count of the extracted members alone.
C25_ReportedInDebugOnly ==
    [][/\ MemberStepFailed =>
             IF debug_mode
             THEN /\ Len(pck_out') = Len(pck_out) + 1
                  /\ pck_out'[Len(pck_out')].line = "error"
                  /\ pck_out'[Len(pck_out')].path = files_info[next_member + 1].path
             ELSE pck_out' = pck_out
       /\ (ppc = "extracting" /\ ppc' = "closed") =>
             pck_out'[Len(pck_out')] = [line |-> "summary", extracted |-> extracted_count]]_vars

\* opening the archive failed: no magic, or a header or an entry table that
\* cannot be parsed
OpenFailed == ppc = "closed" /\ ret = "False"

\* C29: when opening an archive fails, the file system is left as it was: no
\* output directory and no member file has been created.
C29_FailedOpenLeavesNothing ==
    OpenFailed =>
        /\ fs_files = [q \in {SiblingFile} |-> <<0>>]
        /\ fs_dirs = { << >>, GameDir }

\* what a failed opening leaves: no member file, and the output directory,
\* which is made before the archive is opened (line 955).
C29_FailedOpenLeavesOutputDir ==
    OpenFailed =>
        /\ fs_files = [q \in {SiblingFile} |-> <<0>>]
        /\ fs_dirs = { << >>, GameDir, OutDir }

\* the phases a step may lead from and to
PhaseSteps ==
    { <<"unopened", "enumerating">>, <<"unopened", "extracting">>, <<"unopened", "closed">>,
      <<"enumerating", "enumerating">>, <<"enumerating", "extracting">>,
      <<"enumerating", "closed">>,
      <<"extracting", "extracting">>, <<"extracting", "closed">> }

\* C21: within one extraction the phases follow one another in the order
\* header parse, enumeration of the entries, member extractions, sidecar pass,
\* close: no file is written before every entry record has been read, an
\* entry is read only before the first member is extracted, the sidecar pass
\* starts only once the attempt on the last member has ended, and the
\* function returns, True or False, with the file closed and only then.
C21_PhaseOrder ==
    [][/\ <<ppc, ppc'>> \in PhaseSteps
       /\ fs_files' # fs_files =>
             (ppc = "extracting" /\ Len(files_info) = file_count)
       /\ files_info' # files_info =>
             (ppc = "enumerating" /\ next_member = 0 /\ extracted_count = 0)
       /\ next_member' # next_member =>
             (ppc = "extracting" /\ ppc' = "extracting" /\ Len(files_info) = file_count)
       /\ (recovered' # recovered \/ ret' = "True") =>
             (ppc = "extracting" /\ ppc' = "closed" /\ next_member = Len(files_info)
                 /\ next_member' = next_member)
       /\ ret' # "none" <=> ppc' = "closed"]_vars

\* header parsed, two entries enumerated, both extracted, one file recovered
\* by the sidecar pass, closed
C21_Witness ==
    /\ ppc = "closed" /\ ret = "True"
    /\ file_count = 2 /\ Len(files_info) = 2 /\ next_member = 2
    /\ extracted_count = 2 /\ recovered = 1

\* the iterations of the entry-table loop entered so far: one per entry
\* enumerated, and the one that raised
TableIterations ==
    Len(files_info) + (IF ppc = "closed" /\ ret = "False" /\ file_count > 0 THEN 1 ELSE 0)

\* the phases still ahead, and the iterations the loop of the phase has left
PhaseRank ==
    CASE ppc = "unopened" -> 3
      [] ppc = "enumerating" -> 2
      [] ppc = "extracting" -> 1
      [] OTHER -> 0

LoopLeft ==
    IF ppc = "enumerating" THEN file_count - Len(files_info)
    ELSE IF ppc = "extracting" THEN Len(files_info) - next_member
    ELSE 0

\* C30: the extraction of a finite file terminates. Every step brings it
\* nearer its end: it moves to a later phase, or stays in a loop that has one
\* iteration less to run and never fewer than none. The entry-table loop stops
\* at the first record whose path length, offset or size cannot be read in
\* full, so it runs at most len(file)/20 + 1 iterations whatever count the
\* header declares; the member loop never runs more often than entries were
\* enumerated, is left only after it has run once per entry, and has done so
\* whenever the extraction returns True.
C30_ExtractionTerminates ==
    [][/\ \/ PhaseRank' < PhaseRank
          \/ PhaseRank' = PhaseRank /\ LoopLeft' < LoopLeft /\ LoopLeft' >= 0
       /\ TableIterations' <= (Len(pck_file') \div 20) + 1
       /\ next_member' <= Len(files_info')
       /\ (ppc = "extracting" /\ ppc' = "closed") => next_member' = Len(files_info')
       /\ ret' = "True" => (next_member' = Len(files_info') /\ Len(files_info') = file_count')]_vars

\* a header declaring ManyEntries entries more than the two of its table: the
\* loop read them and stopped at the third record
C30_Witness ==
    /\ gen.extra = ManyEntries /\ Len(gen.ms) = 2
    /\ file_count = 2 + ManyEntries /\ file_count > (Len(pck_file) \div 20) + 1
    /\ ppc = "closed" /\ ret = "False" /\ pck_error = "struct.error"
    /\ Len(files_info) = 2 /\ TableIterations = 3 /\ next_member = 0

-----------------------------------------------------------------------------
(* Textures and sidecars: archives made to meet convert_stex_to_png and     *)
(* process_godot_imports, extracted by the same steps                       *)

\* longest run of bytes put in front of a signature
MaxJunk == 2

\* 'res://t.stex', 'res://d/t.stex'
TexPaths == { ResPrefix \o <<116>> \o ExtStex, ResPrefix \o <<100, 47, 116>> \o ExtStex }

\* what a texture holds around its junk: the PNG signature, its first 7
\* bytes, a RIFF container tagged WEBP, one tagged WEBB, nothing
TexCores ==
    { png_sig, SubSeq(png_sig, 1, 7), webp_sig \o <<1, 0, 0, 0>> \o WEBP,
      webp_sig \o <<1, 0, 0, 0>> \o <<87, 69, 66, 66>>, << >> }

\* the bytes in front: 0x09 and 0x89, the first byte of the PNG signature
TexJunk == SeqsUpTo({9, 137}, MaxJunk)

TexTails == { << >>, <<7>>, png_sig }

\* a blob with the PNG signature at offset 37
Blob37 == Zeros(37) \o png_sig \o <<7>>

\* 'RIFF' twice: the first is followed by no tag, the second, at offset 4,
\* starts a container tagged WEBP
BlobDecoy == webp_sig \o webp_sig \o <<1, 0, 0, 0>> \o WEBP \o <<7>>

TexBlobs == { j \o c \o t : j \in TexJunk, c \in TexCores, t \in TexTails } \cup { Blob37, BlobDecoy }

\* 'res://a.import' holding  source_file="res://s"
MemberImportA == [path |-> ResPrefix \o <<97>> \o ExtImport,
                  data |-> SourceFileKey \o <<34>> \o ResPrefix \o <<115, 34, 10>>, bad |-> "no"]

\* 'res://z.import' holding  path="res://a"  and no source_file line
MemberImportNoKey == [path |-> ResPrefix \o <<122>> \o ExtImport,
                      data |-> <<112, 97, 116, 104, 61, 34>> \o ResPrefix \o <<97, 34, 10>>,
                      bad |-> "no"]

SidecarMembers == {MemberA, MemberImport, MemberImportA, MemberImportNoKey}

\* '<output_dir>/s', a file an earlier extraction left in the output directory
PriorFile == Append(OutDir, <<115>>)

\* one texture alone, or up to MaxEntries members and sidecars, in a container
\* at offset 0; prior tells whether the output directory exists already
AssetArchives ==
    { [ms |-> << [path |-> q, data |-> b, bad |-> "no"] >>, prior |-> FALSE]
        : q \in TexPaths, b \in TexBlobs }
    \cup { [ms |-> ms, prior |-> pr] : ms \in SeqsUpTo(SidecarMembers, MaxEntries), pr \in BOOLEAN }

AssetInit ==
    /\ \E a \in AssetArchives :
          /\ gen = [ms |-> a.ms, layout |-> "plain", host |-> << >>, cut |-> 0, extra |-> 0]
          /\ fs_files = IF a.prior
                        THEN [q \in {SiblingFile, PriorFile} |-> IF q = PriorFile THEN <<7>> ELSE <<0>>]
                        ELSE [q \in {SiblingFile} |-> <<0>>]
          /\ fs_dirs = IF a.prior THEN { << >>, GameDir, OutDir } ELSE { << >>, GameDir }
    /\ pck_file = FileOf(gen)
    /\ ppc = "unopened"
    /\ pck_start = 0
    /\ fpos = 0
    /\ file_count = 0
    /\ files_info = << >>
    /\ next_member = 0
    /\ extracted_count = 0
    /\ ret = "none"
    /\ pck_error = "none"
    /\ recovered = 0
    \* PIL_AVAILABLE is read only when a WebP texture is met (line 1064)
    /\ PIL_AVAILABLE \in (IF \E i \in 1..Len(gen.ms) : Find(gen.ms[i].data, webp_sig) # -1
                          THEN BOOLEAN ELSE {FALSE})
    /\ debug_mode = FALSE
    /\ pck_out = << >>
    /\ CipherIdle
    /\ BatchIdle

SpecAssets == AssetInit /\ [][PckNext]_vars

\* the archive holds one texture, and its turn in the member loop is over
TextureDone ==
    /\ Len(gen.ms) = 1 /\ gen.ms[1].path \in TexPaths
    /\ next_member = 1

Blob == gen.ms[1].data

\* the recorded path without 'res://', and without its '.stex'
RelPath == SliceFrom(gen.ms[1].path, Len(ResPrefix))

RelStem == Slice(RelPath, 0, Len(RelPath) - Len(ExtStex))

\* the file of the output directory a relative path names
OutFile(rel) == OutDir \o SplitPath(rel)

Holds(rel, data) == OutFile(rel) \in DOMAIN fs_files /\ fs_files[OutFile(rel)] = data

SigAt(blob, sig, k) == k + Len(sig) <= Len(blob) /\ SubSeq(blob, k + 1, k + Len(sig)) = sig

FirstSigAt(blob, sig, k) == SigAt(blob, sig, k) /\ \A j \in 0..(k - 1) : ~SigAt(blob, sig, j)

\* neither the PNG signature nor a RIFF container tagged WEBP anywhere in it
NoKnownSignature(blob) ==
    \A k \in 0..Len(blob) :
        /\ ~SigAt(blob, png_sig, k)
        /\ ~(SigAt(blob, webp_sig, k) /\ SigAt(blob, WEBP, k + 8))

\* C11: a texture whose blob has its first PNG signature at offset k leaves
\* blob[k:] as the '.png' file: it starts with the signature and has
\* len(blob) - k bytes; a texture whose blob holds no known signature leaves
\* the whole blob, byte for byte, under the member's own name.
C11_Transcoding ==
    TextureDone =>
        /\ \A k \in 0..Len(Blob) :
              FirstSigAt(Blob, png_sig, k) =>
                 /\ Holds(RelStem \o ExtPng, SliceFrom(Blob, k))
                 /\ SubSeq(fs_files[OutFile(RelStem \o ExtPng)], 1, 8) = png_sig
                 /\ Len(fs_files[OutFile(RelStem \o ExtPng)]) = Len(Blob) - k
        /\ NoKnownSignature(Blob) =>
              /\ Holds(RelPath, Blob)
              /\ OutFile(RelStem \o ExtPng) \notin DOMAIN fs_files
              /\ OutFile(RelStem \o ExtWebp) \notin DOMAIN fs_files

\* the blob with the signature at offset 37 was transcoded
C11_Witness ==
    /\ TextureDone /\ Blob = Blob37 /\ FirstSigAt(Blob, png_sig, 37)
    /\ Holds(RelStem \o ExtPng, png_sig \o <<7>>)
    /\ Len(fs_files[OutFile(RelStem \o ExtPng)]) = Len(Blob) - 37

\* C17: whatever a '.stex' entry holds, and whether Pillow is missing, fails
\* or converts, the entry is counted as extracted and a file holds the PNG
\* slice, the WebP slice, its re-encoding, or the whole blob.
C17_TranscodingNeverFails ==
    TextureDone =>
        /\ extracted_count = 1
        /\ \/ \E k \in 0..Len(Blob) : Holds(RelStem \o ExtPng, SliceFrom(Blob, k))
           \/ \E k \in 0..Len(Blob) : Holds(RelStem \o ExtWebp, SliceFrom(Blob, k))
           \/ \E k \in 0..Len(Blob) : Holds(RelStem \o ExtPng, PillowPng(SliceFrom(Blob, k)))
           \/ Holds(RelPath, Blob)

\* a WebP texture Pillow could not convert: the WebP slice is kept and counted
C17_Witness ==
    /\ TextureDone /\ PIL_AVAILABLE /\ extracted_count = 1
    /\ \E k \in 1..Len(Blob) : FirstSigAt(Blob, webp_sig, k) /\ Holds(RelStem \o ExtWebp, SliceFrom(Blob, k))
    /\ OutFile(RelStem \o ExtPng) \notin DOMAIN fs_files

\* a RIFF container tagged WEBP starts at offset k of the blob
WebpAt(blob, k) == SigAt(blob, webp_sig, k) /\ SigAt(blob, WEBP, k + 8)

NoPngSignature(blob) == \A k \in 0..Len(blob) : ~SigAt(blob, png_sig, k)

\* the texture was detected as WebP from offset k on: the slice is kept as the
\* '.webp' file, or its re-encoding as the '.png' file
KeptAsWebp(k) ==
    \/ Holds(RelStem \o ExtWebp, SliceFrom(Blob, k))
    \/ PIL_AVAILABLE /\ Holds(RelStem \o ExtPng, PillowPng(SliceFrom(Blob, k)))

\* C23: a blob with a PNG signature is cut at its first PNG signature,
\* wherever a RIFF/WEBP pattern stands; a blob without one that holds, at any
\* offset, 'RIFF' with 'WEBP' eight bytes further on is detected as WebP and
\* cut at the smallest such offset.
C23_WebpAtAnyOffset ==
    TextureDone =>
        /\ \A k \in 0..Len(Blob) :
              FirstSigAt(Blob, png_sig, k) => Holds(RelStem \o ExtPng, SliceFrom(Blob, k))
        /\ NoPngSignature(Blob) =>
              \A k \in 0..Len(Blob) :
                  (WebpAt(Blob, k) /\ \A j \in 0..(k - 1) : ~WebpAt(Blob, j)) => KeptAsWebp(k)

\* What the converter does: the PNG signature comes first, and without one
\* only the first 'RIFF' of the blob is looked at; when 'WEBP' does not stand
\* eight bytes after it the whole blob is kept under the member's own name,
\* whatever follows.
C23_FirstRiffOnly ==
    TextureDone =>
        /\ \A k \in 0..Len(Blob) :
              FirstSigAt(Blob, png_sig, k) => Holds(RelStem \o ExtPng, SliceFrom(Blob, k))
        /\ NoPngSignature(Blob) =>
              \A k \in 0..Len(Blob) :
                  FirstSigAt(Blob, webp_sig, k) =>
                      IF SigAt(Blob, WEBP, k + 8)
                      THEN KeptAsWebp(k)
                      ELSE /\ Holds(RelPath, Blob)
                           /\ OutFile(RelStem \o ExtWebp) \notin DOMAIN fs_files
                           /\ OutFile(RelStem \o ExtPng) \notin DOMAIN fs_files

\* the file a sidecar of the model names: source_file="res://<name>"
NamedSource(content) ==
    LET lead == SourceFileKey \o <<34>> \o ResPrefix
    IN  IF StartsWith(content, lead)
        THEN << Slice(content, Len(lead), Len(content) - 2) >>
        ELSE << >>

SidecarOf(q) == [q EXCEPT ![Len(q)] = q[Len(q)] \o ExtImport]

\* C16: process_godot_imports changes no file that exists when it starts; a
\* file it creates is the destination of a sidecar (the sidecar's path without
\* '.import') whose source exists, and holds the source's bytes; recovered
\* counts exactly the files created.
C16_FirstWriteWins ==
    [][(ppc = "extracting" /\ ppc' = "closed") =>
          /\ \A q \in DOMAIN fs_files : q \in DOMAIN fs_files' /\ fs_files'[q] = fs_files[q]
          /\ \A q \in (DOMAIN fs_files') \ (DOMAIN fs_files) :
                /\ Len(q) > 0 /\ SidecarOf(q) \in DOMAIN fs_files
                /\ LET src == NamedSource(fs_files[SidecarOf(q)])
                   IN  /\ Len(src) = 1
                       /\ OutFile(src[1]) \in DOMAIN fs_files'
                       /\ fs_files'[q] = fs_files'[OutFile(src[1])]
          /\ recovered' = Cardinality((DOMAIN fs_files') \ (DOMAIN fs_files))]_vars

\* 'a' was extracted, its sidecar names the existing file 's', and 'a' was
\* left as extracted and not counted
C16_Witness ==
    /\ ppc = "closed" /\ ret = "True"
    /\ gen.ms = <<MemberA, MemberImportA>>
    /\ PriorFile \in DOMAIN fs_files /\ fs_files[PriorFile] = <<7>>
    /\ fs_files[Append(OutDir, <<97>>)] = <<1, 2>>
    /\ recovered = 0

-----------------------------------------------------------------------------
(* Decrypter.process_directory and discover_rpgmakermz                      *)

\* most files the directory of a batch holds
MaxFiles == 2

\* '.rpgmvp', '.png_', '.rpgmvm', '.m4a_', '.rpgmvo', '.ogg_', '.m4a', '.ogg'
ExtRpgmvp == <<46, 114, 112, 103, 109, 118, 112>>

ExtPngU == <<46, 112, 110, 103, 95>>

ExtRpgmvm == <<46, 114, 112, 103, 109, 118, 109>>

ExtM4aU == <<46, 109, 52, 97, 95>>

ExtRpgmvo == <<46, 114, 112, 103, 109, 118, 111>>

ExtOggU == <<46, 111, 103, 103, 95>>

ExtM4a == <<46, 109, 52, 97>>

ExtOgg == <<46, 111, 103, 103>>

\* lines 811-818, as pairs <<key, value>>
file_types ==
    { <<ExtRpgmvp, ExtPng>>, <<ExtPngU, ExtPng>>, <<ExtRpgmvm, ExtM4a>>,
      <<ExtM4aU, ExtM4a>>, <<ExtRpgmvo, ExtOgg>>, <<ExtOggU, ExtOgg>> }

\* lines 860-864
mz_types == { <<ExtPngU, ExtPng>>, <<ExtOggU, ExtOgg>>, <<ExtM4aU, ExtM4a>> }

\* d.keys(), d.values(), d.get(k, default)
DictKeys(d) == { kv[1] : kv \in d }

DictValues(d) == { kv[2] : kv \in d }

DictGet(d, k, default) ==
    IF k \in DictKeys(d) THEN (CHOOSE kv \in d : kv[1] = k)[2] ELSE default

\* os.path.splitext(p)[1]
SplitExtExt(p) == SliceFrom(p, Len(SplitExtRoot(p)))

\* with open(name, 'wb') as f: f.write(data), under the fault the file meets:
\* "open" fails before anything changes, "write" fails once open has
\* truncated the file
WriteFile(dsk, name, data, fault) ==
    IF fault = "open" THEN [ok |-> FALSE, disk |-> dsk]
    ELSE IF fault = "write" THEN [ok |-> FALSE, disk |-> Put(dsk, name, << >>)]
    ELSE [ok |-> TRUE, disk |-> Put(dsk, name, data)]

\* os.remove(name)
RemoveFile(dsk, name) == [q \in (DOMAIN dsk) \ {name} |-> dsk[q]]

\* lines 823-846: the body of the loop of process_directory for one file:
\* [eligible, err, disk, hl], err "none" when processed_count is incremented
process_directory_file(file, op, dsk, fault, hl, keyArr, ignore) ==
    LET file_ext      == SplitExtExt(file)
        eligible      == file_ext \in (IF op = "decrypt" THEN DictKeys(file_types)
                                                         ELSE DictValues(file_types))
        new_file_ext  == DictGet(file_types, file_ext, file_ext)
        new_file_name == SplitExtRoot(file) \o new_file_ext
        content       == dsk[file]
        hl2           == header_len_after(content, hl)
        \* lines 837-843, once the operation has returned new_content
        write_new(new_content) ==
            LET written == WriteFile(dsk, new_file_name, new_content.out, fault)
            IN  IF new_content.err # "none"
                THEN [eligible |-> TRUE, err |-> new_content.err, disk |-> dsk, hl |-> hl2]
                ELSE IF ~written.ok
                THEN [eligible |-> TRUE, err |-> "OSError", disk |-> written.disk, hl |-> hl2]
                ELSE [eligible |-> TRUE, err |-> "none",
                      disk |-> IF op = "decrypt" /\ file # new_file_name
                               THEN RemoveFile(written.disk, file) ELSE written.disk,
                      hl |-> hl2]
    IN  IF ~eligible THEN [eligible |-> FALSE, err |-> "none", disk |-> dsk, hl |-> hl]
        ELSE IF fault = "read" \/ file \notin DOMAIN dsk
             THEN [eligible |-> TRUE, err |-> "OSError", disk |-> dsk, hl |-> hl]
        ELSE IF op = "encrypt"
             THEN write_new([out |-> encrypt("bytes", content, hl, keyArr).out,
                             err |-> encrypt("bytes", content, hl, keyArr).err])
        ELSE write_new(decrypt(content, hl, keyArr, ignore))

\* lines 869-883: the body of the loop of discover_rpgmakermz for one file
discover_rpgmakermz_file(file, dsk, fault, hl, keyArr, ignore) ==
    LET eligible  == \E ext \in DictKeys(mz_types) : EndsWith(file, ext)
        new_ext   == DictGet(mz_types, SplitExtExt(file), << >>)
        new_path  == SplitExtRoot(file) \o new_ext
        content   == dsk[file]
        hl2       == header_len_after(content, hl)
        \* lines 876-881, once decrypt has returned decrypted
        write_new(decrypted) ==
            LET written == WriteFile(dsk, new_path, decrypted.out, fault)
            IN  IF decrypted.err # "none"
                THEN [eligible |-> TRUE, err |-> decrypted.err, disk |-> dsk, hl |-> hl2]
                ELSE IF ~written.ok
                THEN [eligible |-> TRUE, err |-> "OSError", disk |-> written.disk, hl |-> hl2]
                ELSE [eligible |-> TRUE, err |-> "none",
                      disk |-> RemoveFile(written.disk, file), hl |-> hl2]
    IN  IF ~eligible THEN [eligible |-> FALSE, err |-> "none", disk |-> dsk, hl |-> hl]
        ELSE IF fault = "read" \/ file \notin DOMAIN dsk
             THEN [eligible |-> TRUE, err |-> "OSError", disk |-> dsk, hl |-> hl]
        ELSE write_new(decrypt(content, hl, keyArr, ignore))

\* the loop stopping at the first file that fails
batch_loop_stops_on_error(drv, files, op, dsk, flt, hl, keyArr, ignore) ==
    LET r == IF drv = "process_directory"
             THEN process_directory_file(Head(files), op, dsk, flt[Head(files)], hl, keyArr, ignore)
             ELSE discover_rpgmakermz_file(Head(files), dsk, flt[Head(files)], hl, keyArr, ignore)
    IN  r @@ [walk |-> IF r.err # "none" THEN << >> ELSE Tail(files)]

\* lines 821-846, 867-883: one iteration of `for file in files`: the body runs
\* inside try/except Exception, and the loop goes on with the files left
batch_loop(drv, files, op, dsk, flt, hl, keyArr, ignore) ==
    LET r == IF drv = "process_directory"
             THEN process_directory_file(Head(files), op, dsk, flt[Head(files)], hl, keyArr, ignore)
             ELSE discover_rpgmakermz_file(Head(files), dsk, flt[Head(files)], hl, keyArr, ignore)
    IN  r @@ [walk |-> Tail(files)]

\* 'a.rpgmvp', 'a.png_', '.png_', 'a.png'
NameRpgmvp == <<97>> \o ExtRpgmvp

NamePngU == <<97>> \o ExtPngU

NameDotPngU == ExtPngU

NamePng == <<97>> \o ExtPng

BatchNames == {NameRpgmvp, NamePngU, NameDotPngU, NamePng}

\* an empty file, an encrypted file (the fake header, then 01 02), a file
\* whose second byte is not the header's
EncryptedContent == build_fake_header(NoneVal).out \o <<1, 2>>

BatchContents == { << >>, EncryptedContent, <<82, 88>> }

\* "" and "1234ABCD"
BatchKeys == { << >>, <<1, 2, 3, 4, 10, 11, 12, 13>> }

\* the fault a file meets: none, its reading fails, the opening of its output
\* fails, the writing of its output fails
Faults == {"none", "read", "open", "write"}

\* the directories of the model: at most MaxFiles files
BatchDirs ==
    UNION { [names -> BatchContents]
              : names \in { n \in SUBSET BatchNames : Cardinality(n) <= MaxFiles } }

\* at most one file of the directory meets a fault
FaultMaps(names) ==
    { [q \in names |-> IF q = bad THEN flt ELSE "none"] : bad \in names, flt \in Faults }
    \cup { [q \in names |-> "none"] }

\* discover_rpgmakermz builds a Decrypter only for a non-empty key (line 856)
BatchInit ==
    /\ \E drv \in {"process_directory", "discover_rpgmakermz"} :
       \E op \in {"decrypt", "encrypt"} :
          /\ drv = "discover_rpgmakermz" => op = "decrypt"
          /\ driver = drv
          /\ operation = op
    /\ encrypt_code \in BatchKeys
    /\ driver = "discover_rpgmakermz" => encrypt_code # << >>
    /\ encryption_code_array = split_encryption_code(encrypt_code)
    /\ header_len = NoneVal
    /\ ignore_fake_header = FALSE
    /\ disk \in BatchDirs
    /\ disk0 = disk
    /\ faults \in FaultMaps(DOMAIN disk)
    /\ walk \in Perms(DOMAIN disk)
    /\ processed_count = 0
    /\ printed = << >>
    /\ bpc = "walking"
    /\ buf = [kind |-> "bytes", data |-> << >>]
    /\ orig = << >>
    /\ enc = NoResult
    /\ tamperedAt = 0
    /\ decIn = << >>
    /\ dec = NoResult
    /\ cpc = "idle"
    /\ restored = NoResult
    /\ PckIdle

\* one file of the walk
BatchFile ==
    /\ bpc = "walking"
    /\ walk # << >>
    /\ \E r \in { batch_loop(driver, walk, operation, disk, faults, header_len,
                               encryption_code_array, ignore_fake_header) } :
           /\ disk' = r.disk
           /\ walk' = r.walk
           /\ header_len' = r.hl
           /\ processed_count' = processed_count + (IF r.eligible /\ r.err = "none" THEN 1 ELSE 0)
           /\ printed' = IF r.err # "none"
                         THEN Append(printed, [line |-> "error", file |-> Head(walk), reason |-> r.err])
                         ELSE printed
    /\ UNCHANGED <<driver, operation, disk0, faults, bpc>>
    /\ UNCHANGED <<encrypt_code, encryption_code_array, ignore_fake_header,
                   buf, orig, enc, tamperedAt, decIn, dec, cpc, restored>>
    /\ UNCHANGED pvars

\* lines 848, 885: the summary line
BatchSummary ==
    /\ bpc = "walking"
    /\ walk = << >>
    /\ printed' = Append(printed, [line |-> "summary", processed |-> processed_count])
    /\ bpc' = "done"
    /\ UNCHANGED <<driver, operation, disk, disk0, faults, walk, processed_count>>
    /\ UNCHANGED cvars
    /\ UNCHANGED pvars

BatchNext == BatchFile \/ BatchSummary

SpecBatch == BatchInit /\ [][BatchNext]_vars

-----------------------------------------------------------------------------
(* Properties of the batches *)

\* the names of the model each batch is to process
EligibleNames ==
    IF operation = "encrypt" THEN {NamePng}
    ELSE IF driver = "process_directory" THEN {NameRpgmvp, NamePngU}
    ELSE {NamePngU, NameDotPngU}

Eligible0 == EligibleNames \cap DOMAIN disk0

\* what the cipher makes of a content read from disk (a bytes object), with
\* the Decrypter the batch builds: header length 16, verification on
Transformed(content) ==
    IF operation = "encrypt"
    THEN LET e == encrypt("bytes", content, NoneVal, split_encryption_code(encrypt_code))
         IN  [err |-> e.err, out |-> e.out]
    ELSE decrypt(content, NoneVal, split_encryption_code(encrypt_code), FALSE)

\* the transform and the write of the file both succeed
Succeeds(f) == faults[f] = "none" /\ Transformed(disk0[f]).err = "none"

Reported(f) == \E i \in 1..Len(printed) : printed[i].line = "error" /\ printed[i].file = f

\* C13: in a decrypt batch, the step that processes a file removes it only if
\* its decrypted content has been written to a file that exists afterwards;
\* if decrypt or the write fails for the file, the file still exists with the
\* content it had.
C13_OriginalKeptUntilWritten ==
    [][(bpc = "walking" /\ walk # << >> /\ operation = "decrypt" /\ Head(walk) \in DOMAIN disk) =>
          LET f == Head(walk)
              d == decrypt(disk[f], NoneVal, split_encryption_code(encrypt_code), FALSE)
          IN  /\ f \notin DOMAIN disk' =>
                    /\ faults[f] = "none" /\ d.err = "none"
                    /\ \E g \in DOMAIN disk' : disk'[g] = d.out
              /\ (faults[f] # "none" \/ d.err # "none") =>
                    (f \in DOMAIN disk' /\ disk'[f] = disk[f])]_vars

\* C13, for the batches of process_directory.
C13_ProcessDirectoryKeepsOriginal ==
    [][(bpc = "walking" /\ walk # << >> /\ operation = "decrypt" /\ Head(walk) \in DOMAIN disk
            /\ driver = "process_directory") =>
          LET f == Head(walk)
              d == decrypt(disk[f], NoneVal, split_encryption_code(encrypt_code), FALSE)
          IN  /\ f \notin DOMAIN disk' =>
                    /\ faults[f] = "none" /\ d.err = "none"
                    /\ \E g \in DOMAIN disk' : disk'[g] = d.out
              /\ (faults[f] # "none" \/ d.err # "none") =>
                    (f \in DOMAIN disk' /\ disk'[f] = disk[f])]_vars

\* C14: the summary of a batch in which N files were processed and M failed
\* reports N and M.
C14_BothCountsReported ==
    bpc = "done" =>
        LET summary == printed[Len(printed)]
        IN  /\ summary.line = "summary"
            /\ {"processed", "failed"} \subseteq DOMAIN summary
            /\ summary.processed = Cardinality({ f \in Eligible0 : Succeeds(f) })
            /\ summary.failed = Cardinality({ f \in Eligible0 : ~Succeeds(f) })

\* the summary does report the number of files processed
C14_ProcessedCountReported ==
    (bpc = "done" /\ driver = "process_directory") =>
        LET summary == printed[Len(printed)]
        IN  /\ summary.line = "summary"
            /\ summary.processed = Cardinality({ f \in Eligible0 : Succeeds(f) })

C24_EncryptKeepsPlaintext ==
    operation = "encrypt" =>
        \A f \in Eligible0 :
            /\ f \in DOMAIN disk /\ disk[f] = disk0[f]
            /\ (bpc = "done" /\ Succeeds(f)) =>
                   \E g \in (DOMAIN disk) \ {f} : disk[g] = Transformed(disk0[f]).out

\* where the encrypted output goes: onto the plaintext file itself, no other
\* path being created; a file whose encryption fails before the write is
\* left as it was.
C24_EncryptOverwritesPlaintext ==
    (operation = "encrypt" /\ bpc = "done") =>
        /\ DOMAIN disk = DOMAIN disk0
        /\ \A f \in Eligible0 :
              /\ Succeeds(f) => disk[f] = Transformed(disk0[f]).out
              /\ (faults[f] \in {"none", "read", "open"} /\ ~Succeeds(f)) => disk[f] = disk0[f]

-----------------------------------------------------------------------------
(* Names that meet: archives whose entries are written to one output file,  *)
(* and sidecars whose source lies outside the output directory              *)

\* 'a', a recorded path without the virtual root
MemberBareA == [path |-> <<97>>, data |-> <<3>>, bad |-> "no"]

\* 'res://t.stex' holding a PNG, and 'res://t.png'
MemberTexT == [path |-> ResPrefix \o <<116>> \o ExtStex, data |-> png_sig \o <<7>>, bad |-> "no"]

MemberPngT == [path |-> ResPrefix \o <<116>> \o ExtPng, data |-> <<5>>, bad |-> "no"]

\* 'res://k.import' holding  source_file="res://../e"
MemberImportUp == [path |-> ResPrefix \o <<107>> \o ExtImport,
                   data |-> SourceFileKey \o <<34>> \o ResPrefix \o <<46, 46, 47, 101, 34, 10>>,
                   bad |-> "no"]

\* 'res://j.import' holding  source_file="res:///g/e"
MemberImportAbs == [path |-> ResPrefix \o <<106>> \o ExtImport,
                    data |-> SourceFileKey \o <<34>> \o ResPrefix \o <<47, 103, 47, 101, 34, 10>>,
                    bad |-> "no"]

NameMembers == {MemberA, MemberBareA, MemberTexT, MemberPngT, MemberImport,
                MemberImportUp, MemberImportAbs}

\* up to MaxEntries of these members in a container at offset 0, next to the
\* sibling file '/g/e'; the output directory does not exist yet
NameInit ==
    /\ \E ms \in SeqsUpTo(NameMembers, MaxEntries) :
          gen = [ms |-> ms, layout |-> "plain", host |-> << >>, cut |-> 0, extra |-> 0]
    /\ fs_files = [q \in {SiblingFile} |-> <<0>>]
    /\ fs_dirs = { << >>, GameDir }
    /\ pck_file = FileOf(gen)
    /\ ppc = "unopened"
    /\ pck_start = 0
    /\ fpos = 0
    /\ file_count = 0
    /\ files_info = << >>
    /\ next_member = 0
    /\ extracted_count = 0
    /\ ret = "none"
    /\ pck_error = "none"
    /\ recovered = 0
    /\ PIL_AVAILABLE = FALSE
    /\ debug_mode = FALSE
    /\ pck_out = << >>
    /\ CipherIdle
    /\ BatchIdle

SpecNames == NameInit /\ [][PckNext]_vars

\* the file the sidecar's source_file line resolves to when the sidecar pass
\* runs (lines 1110-1116), << >> when it names none
SidecarSource(import_file) ==
    LET found  == FirstSourceLine(SplitOn(UniversalNewlines(fs_files[import_file]), 10))
        line   == found[1]
        source == ReplaceAll(StripQuote(SliceFrom(line, Find(line, <<61>>) + 1)), ResPrefix, << >>)
    IN  IF Len(found) = 0 THEN << >>
        ELSE FileAt(fs_files, fs_dirs, PathJoin(output_dir, source))

\* the files of the output directory
OutputFiles(files) == { q \in DOMAIN files : IsUnder(OutDir, q) }

\* C26: the sidecar pass copies a source only when it lies under the
\* extraction root: every file the pass creates is the copy of a file of the
\* output directory, whatever '..' segments or absolute path the source_file
\* value holds.
C26_SourcesUnderRoot ==
    [][(ppc = "extracting" /\ ppc' = "closed") =>
          \A q \in (DOMAIN fs_files') \ (DOMAIN fs_files) :
              LET src == SidecarSource(SidecarOf(q))
              IN  /\ Len(src) = 1
                  /\ IsUnder(OutDir, src[1])
                  /\ fs_files'[q] = fs_files[src[1]]]_vars

\* What the pass does: the value is joined to the output directory and the
\* file it resolves to is copied, wherever it lies; the copy lands in the
\* output directory, next to its sidecar.
C26_SourcesAnywhere ==
    [][(ppc = "extracting" /\ ppc' = "closed") =>
          \A q \in (DOMAIN fs_files') \ (DOMAIN fs_files) :
              LET src == SidecarSource(SidecarOf(q))
              IN  /\ Len(src) = 1
                  /\ fs_files'[q] = fs_files[src[1]]
                  /\ IsUnder(OutDir, q)]_vars

\* one iteration of the member loop
MemberStep == ppc = "extracting" /\ next_member' = next_member + 1

\* no two entries of the archive have the same recorded path
DistinctPaths ==
    \A i, j \in 1..Len(gen.ms) : i # j => gen.ms[i].path # gen.ms[j].path

\* C28: two entries of one archive with distinct recorded paths are never
\* written to the same output file: in an archive of distinct paths an
\* iteration of the member loop changes no file that exists, and the extracted
\* count is the number of files in the output directory.
C28_DistinctOutputs ==
    [][(MemberStep /\ DistinctPaths) =>
          /\ \A q \in DOMAIN fs_files : q \in DOMAIN fs_files' /\ fs_files'[q] = fs_files[q]
          /\ extracted_count' = Cardinality(OutputFiles(fs_files'))]_vars

\* What the loop does: the destination is a function of the recorded path
\* that is not one-to-one, an entry written to the file of an earlier one
\* replaces it, and each is counted, so the count is never below the number
\* of files.
C28_LaterEntryWins ==
    [][MemberStep =>
          /\ Cardinality((DOMAIN fs_files') \ (DOMAIN fs_files)) <= 1
          /\ \A q \in DOMAIN fs_files :
                q \in DOMAIN fs_files'
                /\ (fs_files'[q] # fs_files[q] =>
                       /\ fs_files'[q] = gen.ms[next_member + 1].data
                       /\ extracted_count' = extracted_count + 1)
          /\ extracted_count' >= Cardinality(OutputFiles(fs_files'))]_vars

====
